---- MODULE Spec2Model ----
(***************************************************************************)
(* Model of the QuestionDetector class (scripts/question-detector.js):     *)
(* six detection strategies over a DOM snapshot, the shared container      *)
(* resolution and field extraction, and the deduplicator.                  *)
(*                                                                         *)
(* The document is a sequence of node records in document (pre-) order;    *)
(* node 1 is document.body.  Strings are TLA+ strings; every string        *)
(* operation of the source (toLowerCase, trim, includes, substring, split, *)
(* the regular expressions) is computed character by character.            *)
(***************************************************************************)
EXTENDS Integers, Sequences, FiniteSets, TLC

\* the detector: the document and the locals of detectQuestions
VARIABLES dom, pc, strategyIndex, questions, processedElements, foundBy,
          returned, calls

\* the content script (extension/scripts/gemini-service.js): its globals, its
\* pending timers, the page and what the script has put on it
VARIABLES isExtensionEnabled, mutationObserver, observers, polls, timers,
          page, ui, quizSolverQuestions

\* the runs of handleRevealAllClick and the getAnswer calls they made
VARIABLES numQuestions, runs, requests

\* the Reveal button of one question: button.disabled and the position of
\* every call of handleRevealClick
VARIABLES buttonDisabled, clicks

detectorVars == <<dom, pc, strategyIndex, questions, processedElements, foundBy,
                  returned, calls>>

contentVars == <<isExtensionEnabled, mutationObserver, observers, polls, timers,
                 page, ui, quizSolverQuestions>>

revealVars == <<numQuestions, runs, requests>>

buttonVars == <<buttonDisabled, clicks>>

vars == <<detectorVars, contentVars, revealVars, buttonVars>>

(***************************************************************************)
(* Bounds                                                                  *)
(***************************************************************************)
MaxCalls == 2

(***************************************************************************)
(* Strings                                                                 *)
(***************************************************************************)
Min(a, b) == IF a < b THEN a ELSE b

\* s.charAt(i - 1): "" outside the string
CharAt(s, i) == IF i >= 1 /\ i <= Len(s) THEN SubSeq(s, i, i) ELSE ""

UpperChars == "ABCDEFGHIJKLMNOPQRSTUVWXYZ"

LowerChars == "abcdefghijklmnopqrstuvwxyz"

DigitChars == "0123456789"

RECURSIVE IndexIn(_, _, _)
IndexIn(c, alphabet, i) ==
    IF i > Len(alphabet) THEN 0
    ELSE IF CharAt(alphabet, i) = c THEN i
    ELSE IndexIn(c, alphabet, i + 1)

UpperSet == {CharAt(UpperChars, i) : i \in 1..26}

LowerSet == {CharAt(LowerChars, i) : i \in 1..26}

DigitSet == {CharAt(DigitChars, i) : i \in 1..10}

\* the lower-case letter of every upper-case letter
LowerOf == [c \in UpperSet |-> CharAt(LowerChars, IndexIn(c, UpperChars, 1))]

DigitValue == [c \in DigitSet |-> IndexIn(c, DigitChars, 1) - 1]

IsUpper(c) == c \in UpperSet

IsLower(c) == c \in LowerSet

IsDigit(c) == c \in DigitSet

\* \s of the regular expressions
IsSpace(c) == c = " " \/ c = "\n" \/ c = "\t"

\* \w of the regular expressions
IsWordChar(c) == IsUpper(c) \/ IsLower(c) \/ IsDigit(c) \/ c = "_"

LowerChar(c) ==
    IF IsUpper(c) THEN LowerOf[c] ELSE c

\* the string of f(i) for i = lo..hi, built by halving
RECURSIVE Build(_, _, _)
Build(f(_), lo, hi) ==
    IF lo > hi THEN ""
    ELSE IF lo = hi THEN f(lo)
    ELSE LET mid == (lo + hi) \div 2
         IN  Build(f, lo, mid) \o Build(f, mid + 1, hi)

ToLowerCase(s) == Build(LAMBDA i : LowerChar(CharAt(s, i)), 1, Len(s))

RECURSIVE TrimStart(_)
TrimStart(s) ==
    IF s # "" /\ IsSpace(Head(s)) THEN TrimStart(Tail(s)) ELSE s

RECURSIVE TrimEnd(_)
TrimEnd(s) ==
    IF s # "" /\ IsSpace(CharAt(s, Len(s)))
    THEN TrimEnd(SubSeq(s, 1, Len(s) - 1)) ELSE s

Trim(s) == TrimEnd(TrimStart(s))

\* s.substring(0, n)
Substring(s, n) == SubSeq(s, 1, Min(n, Len(s)))

\* s.substring(i - 1): the rest of s from (1-based) position i
From(s, i) == SubSeq(s, i, Len(s))

\* s.includes(sub)
Includes(s, sub) ==
    \E i \in 1..(Len(s) - Len(sub) + 1) : SubSeq(s, i, i + Len(sub) - 1) = sub

StartsWith(s, prefix) == Substring(s, Len(prefix)) = prefix

\* first (1-based) position of sub in s, 0 when absent
IndexOf(s, sub) ==
    IF Includes(s, sub)
    THEN CHOOSE i \in 1..(Len(s) - Len(sub) + 1) :
            /\ SubSeq(s, i, i + Len(sub) - 1) = sub
            /\ \A j \in 1..(i - 1) : SubSeq(s, j, j + Len(sub) - 1) # sub
    ELSE 0

\* s.replace(sub, '') with a string pattern: the first occurrence only
ReplaceFirst(s, sub) ==
    IF sub = "" \/ ~Includes(s, sub) THEN s
    ELSE SubSeq(s, 1, IndexOf(s, sub) - 1) \o From(s, IndexOf(s, sub) + Len(sub))

\* text.replace(/\s+/g, ' '): every maximal run of white space becomes one blank
CollapseSpaces(s) ==
    Build(LAMBDA i : IF ~IsSpace(CharAt(s, i)) THEN CharAt(s, i)
                     ELSE IF IsSpace(CharAt(s, i - 1)) THEN "" ELSE " ",
          1, Len(s))

cleanText(text) == IF text = "" THEN "" ELSE Trim(CollapseSpaces(text))

\* s.split(/\s+/).length: one more than the number of white-space runs
SpaceRuns(s) ==
    Cardinality({i \in 1..Len(s) : IsSpace(CharAt(s, i)) /\ ~IsSpace(CharAt(s, i - 1))})

SplitSpacesLength(s) == SpaceRuns(s) + 1

\* s.split('\n')
RECURSIVE SplitLines(_)
SplitLines(s) ==
    IF ~Includes(s, "\n") THEN <<s>>
    ELSE <<SubSeq(s, 1, IndexOf(s, "\n") - 1)>>
            \o SplitLines(From(s, IndexOf(s, "\n") + 1))

\* position after the longest run of characters of one class starting at i
RECURSIVE SkipSpaces(_, _)
SkipSpaces(s, i) ==
    IF i <= Len(s) /\ IsSpace(CharAt(s, i)) THEN SkipSpaces(s, i + 1) ELSE i

RECURSIVE SkipDigits(_, _)
SkipDigits(s, i) ==
    IF i <= Len(s) /\ IsDigit(CharAt(s, i)) THEN SkipDigits(s, i + 1) ELSE i

RECURSIVE parseInt(_)
parseInt(digits) ==
    IF digits = "" THEN 0
    ELSE 10 * parseInt(SubSeq(digits, 1, Len(digits) - 1))
            + DigitValue[CharAt(digits, Len(digits))]

\* the word w at position i of the lower-cased string s (the /i flag: the
\* callers lower-case the text they search once)
WordAt(s, i, w) ==
    i + Len(w) - 1 <= Len(s) /\ SubSeq(s, i, i + Len(w) - 1) = w

\* /\b(w1|w2|...)\b/i.test(s)
MatchesWord(s, words) ==
    LET l == ToLowerCase(s)
    IN  \E w \in words : \E i \in 1..(Len(l) - Len(w) + 1) :
            /\ WordAt(l, i, w)
            /\ (i = 1 \/ ~IsWordChar(CharAt(l, i - 1)))
            /\ (i + Len(w) > Len(l) \/ ~IsWordChar(CharAt(l, i + Len(w))))

\* [:\s]*
RECURSIVE SkipColonsAndSpaces(_, _)
SkipColonsAndSpaces(s, i) ==
    IF i <= Len(s) /\ (IsSpace(CharAt(s, i)) \/ CharAt(s, i) = ":")
    THEN SkipColonsAndSpaces(s, i + 1) ELSE i

Lowest(S) == CHOOSE i \in S : \A j \in S : i <= j

AtLeastOne(i, j) == IF j > i THEN j ELSE 0

\* one step of a regular expression at position i of the lower-cased s: the
\* position after the longest match of the step, 0 when the step does not
\* match.  A step is \s+, \d+, \s*, [:\s]* or a literal
Step(s, i, step) ==
    CASE step = "\\s+" -> AtLeastOne(i, SkipSpaces(s, i))
      [] step = "\\d+" -> AtLeastOne(i, SkipDigits(s, i))
      [] step = "\\s*" -> SkipSpaces(s, i)
      [] step = "[:\\s]*" -> SkipColonsAndSpaces(s, i)
      [] OTHER -> IF WordAt(s, i, step) THEN i + Len(step) ELSE 0

Cons(i, rest) == IF rest = <<>> THEN <<>> ELSE <<i>> \o rest

\* the steps matched one after the other from position i: <<i, the position
\* after step 1, ..., the position after the last step>>, <<>> for no match
RECURSIVE MatchAt(_, _, _)
MatchAt(s, i, steps) ==
    IF i = 0 THEN <<>>
    ELSE IF steps = <<>> THEN <<i>>
    ELSE Cons(i, MatchAt(s, Step(s, i, Head(steps)), Tail(steps)))

\* the positions of s where the steps match
MatchPositions(s, steps) == {i \in 1..Len(s) : MatchAt(s, i, steps) # <<>>}

\* the leftmost match of the steps in s, <<>> for none
LeftmostAmong(s, steps, positions) ==
    IF positions = {} THEN <<>> ELSE MatchAt(s, Lowest(positions), steps)

FirstMatch(s, steps) == LeftmostAmong(s, steps, MatchPositions(s, steps))

\* /Question\s+\d+/i
QuestionN == <<"question", "\\s+", "\\d+">>

\* /Question\s+(\d+)\s+of\s+(\d+)/i
QuestionNofM == <<"question", "\\s+", "\\d+", "\\s+", "of", "\\s+", "\\d+">>

\* /^quiz\s+\d+:\s*/i
QuizN == <<"quiz", "\\s+", "\\d+", ":", "\\s*">>

\* /Question\s+\d+/i.test(s)
HasQuestionN(s) == MatchPositions(ToLowerCase(s), QuestionN) # {}

\* the two groups of a match of QuestionNofM in s, <<>> for no match
GroupsOf(s, match) ==
    IF match = <<>> THEN <<>>
    ELSE <<SubSeq(s, match[3], match[4] - 1), SubSeq(s, match[7], match[8] - 1)>>

\* text.match(questionNumberRegex): <<group 1, group 2>> of the leftmost
\* match, <<>> for null
questionNumberRegex(s) == GroupsOf(s, FirstMatch(ToLowerCase(s), QuestionNofM))

\* text.replace(regex, '') for a regex anchored at the start of the text
RemoveMatch(text, match) ==
    IF match = <<>> THEN text ELSE From(text, match[Len(match)])

(***************************************************************************)
(* The document: node records in document order, node 1 = document.body    *)
(***************************************************************************)
Body == 1

\* constructors of node records (the read-only tree the detector is given)
Element(parent, tag, id, classList, attrs) ==
    [parent |-> parent, nodeType |-> "element", tag |-> tag, id |-> id,
     classList |-> classList, attrs |-> attrs, type |-> "", name |-> "",
     value |-> "", checked |-> FALSE, htmlFor |-> "", dataTestid |-> "",
     dataCy |-> "", text |-> ""]

Div(parent, id, classList, attrs) == Element(parent, "div", id, classList, attrs)

Plain(parent, tag) == Element(parent, tag, "", <<>>, {})

Label(parent, htmlFor) == [Plain(parent, "label") EXCEPT !.htmlFor = htmlFor]

\* an <input>; value is the DOM value property ("on" when the attribute is absent)
Input(parent, type, id, classList, name, value, checked) ==
    [Element(parent, "input", id, classList, {}) EXCEPT
        !.type = type, !.name = name, !.value = value, !.checked = checked]

Text(parent, text) ==
    [Plain(parent, "#text") EXCEPT !.nodeType = "text", !.text = text]

BodyNode == Plain(0, "body")

Nodes == 1..Len(dom)

IsElement(n) == dom[n].nodeType = "element"

parentElement(n) == dom[n].parent

\* a.contains(n): n is a or a descendant of a
RECURSIVE contains(_, _)
contains(a, n) ==
    IF n = 0 THEN FALSE
    ELSE IF n = a THEN TRUE
    ELSE contains(a, dom[n].parent)

Descendants(a) == {n \in Nodes : n # a /\ contains(a, n)}

NodeList == [n \in 1..Len(dom) |-> n]

\* a set of nodes as the list of its members in document order
InDocumentOrder(S) == SelectSeq(NodeList, LAMBDA n : n \in S)

RECURSIVE ConcatText(_)
ConcatText(ns) ==
    IF ns = <<>> THEN "" ELSE dom[Head(ns)].text \o ConcatText(Tail(ns))

\* node.textContent
textContent(n) ==
    IF IsElement(n)
    THEN ConcatText(SelectSeq(NodeList,
            LAMBDA m : ~IsElement(m) /\ m > n /\ contains(n, m)))
    ELSE dom[n].text

\* the class attribute as one string
RECURSIVE JoinClasses(_)
JoinClasses(cl) ==
    IF cl = <<>> THEN ""
    ELSE IF Len(cl) = 1 THEN cl[1]
    ELSE cl[1] \o " " \o JoinClasses(Tail(cl))

className(n) == JoinClasses(dom[n].classList)

HasClass(n, cls) == \E i \in 1..Len(dom[n].classList) : dom[n].classList[i] = cls

\* [class*="part"]
ClassContains(n, part) == dom[n].classList # <<>> /\ Includes(className(n), part)

\* root.querySelectorAll(selector) for a selector given as a predicate on nodes
\* (root = 0 is the document)
QuerySelectorAll(root, Matches(_)) ==
    SelectSeq(NodeList, LAMBDA n :
        /\ IsElement(n)
        /\ (root = 0 \/ (n > root /\ contains(root, n)))
        /\ Matches(n))

\* 'input[type="checkbox"], input[type="radio"]'
IsSelectableInput(n) ==
    dom[n].tag = "input" /\ dom[n].type \in {"checkbox", "radio"}

Inputs(root) == QuerySelectorAll(root, IsSelectableInput)

\* '[dcbshquestioncontent], .dcb-course-lesson-questions-question-content'
IsQuestionContent(n) ==
    \/ "dcbshquestioncontent" \in dom[n].attrs
    \/ HasClass(n, "dcb-course-lesson-questions-question-content")

QuestionDivs(root) == QuerySelectorAll(root, IsQuestionContent)

\* '[id^="dcb-sh-question-"]'
HasDoceboId(n) == StartsWith(dom[n].id, "dcb-sh-question-")

\* element.closest(selector): the nearest of n and its ancestors that matches, 0 if none
closest(n, Matches(_)) ==
    LET found == {a \in Nodes : contains(a, n) /\ IsElement(a) /\ Matches(a)}
    IN  IF found = {} THEN 0
        ELSE CHOOSE a \in found : \A b \in found : contains(b, a)

\* tag:first-of-type
FirstOfType(n, tag) ==
    /\ dom[n].tag = tag
    /\ \A m \in 1..(n - 1) :
          ~(dom[m].parent = dom[n].parent /\ dom[m].tag = tag)

(***************************************************************************)
(* Field extraction                                                        *)
(***************************************************************************)
\* the first element of a list, 0 for an empty list (querySelector's null)
FirstOrNull(ns) == IF ns = <<>> THEN 0 ELSE ns[1]

\* document.querySelector(`label[for="${id}"]`) throws a SyntaxError when the
\* id closes the quoted string of the selector
LabelSelectorThrows(n) == dom[n].id # "" /\ Includes(dom[n].id, "\"")

LabelFor(n) ==
    FirstOrNull(QuerySelectorAll(0,
        LAMBDA m : dom[m].tag = "label" /\ dom[m].htmlFor = dom[n].id))

OrElse(a, b) == IF a # "" THEN a ELSE b

LongerThan10(text) == IF Len(text) > 10 THEN text ELSE ""

\* the cleaned text of the first of the nodes, "" when there is none
TextOfFirst(nodes) ==
    IF nodes = {} THEN "" ELSE cleanText(textContent(Lowest(nodes)))

\* Method 3 of getAnswerText: the first following sibling with non-blank text
NextSiblingText(n) ==
    TextOfFirst({m \in Nodes : m > n /\ dom[m].parent = dom[n].parent
                                /\ cleanText(textContent(m)) # ""})

\* Method 4 of getAnswerText: the text of the parent without the input's value
ParentText(input, parent) ==
    IF parent # 0
    THEN Trim(ReplaceFirst(cleanText(textContent(parent)), dom[input].value))
    ELSE dom[input].value

IsLabel(n) == dom[n].tag = "label"

\* the label of Methods 1 and 2: label[for=id], else the label around the input
LabelOf(input, byId) == IF byId # 0 THEN byId ELSE closest(input, IsLabel)

TextFrom(input, label) ==
    IF label # 0 THEN cleanText(textContent(label))
    ELSE OrElse(NextSiblingText(input), ParentText(input, parentElement(input)))

getAnswerText(input) ==
    TextFrom(input, LabelOf(input, IF dom[input].id # "" THEN LabelFor(input) ELSE 0))

\* IsInvalidAnswer comparing the text with the junk tokens as it is written
IsInvalidAnswerCaseSensitive(cleaned) ==
    \/ cleaned = "null"
    \/ cleaned = ""
    \/ Includes(cleaned, "terminate the subscription")
    \/ Includes(cleaned, "renew the subscription")
    \/ Len(cleaned) < 2

\* the filter of extractAnswers: TRUE when the answer is skipped
IsInvalidAnswer(cleaned) ==
    \/ ToLowerCase(cleaned) = "null"
    \/ cleaned = ""
    \/ Includes(ToLowerCase(cleaned), "terminate the subscription")
    \/ Includes(ToLowerCase(cleaned), "renew the subscription")
    \/ Len(cleaned) < 2

\* AnswerOf recording the answer as unselected
AnswerOfUnselected(input, answerText) ==
    IF answerText # "" /\ ~IsInvalidAnswer(Trim(answerText))
    THEN <<[element |-> input, text |-> Trim(answerText), isSelected |-> FALSE,
            value |-> IF dom[input].value # "" THEN dom[input].value
                      ELSE Trim(answerText)]>>
    ELSE <<>>

\* the answer pushed for an input with the given text, <<>> when it is skipped
AnswerOf(input, answerText) ==
    IF answerText # "" /\ ~IsInvalidAnswer(Trim(answerText))
    THEN <<[element |-> input, text |-> Trim(answerText),
            isSelected |-> dom[input].checked,
            value |-> IF dom[input].value # "" THEN dom[input].value
                      ELSE Trim(answerText)]>>
    ELSE <<>>

RECURSIVE AnswersOf(_)
AnswersOf(inputs) ==
    IF inputs = <<>> THEN <<>>
    ELSE AnswerOf(Head(inputs), getAnswerText(Head(inputs))) \o AnswersOf(Tail(inputs))

extractAnswers(container) == AnswersOf(Inputs(container))

\* getAnswerText throws for some input of the container
extractAnswersThrows(container) ==
    \E n \in Nodes : IsSelectableInput(n) /\ contains(container, n) /\ n # container
                        /\ LabelSelectorThrows(n)

\* /^[a-zA-Z]\)|^[0-9]+\.|^[-*]/ on the trimmed text (the remaining members of
\* the last character class are non-ASCII and occur in no text of the model)
IsListItem(text) ==
    LET t == Trim(text)
    IN  \/ Len(t) >= 2 /\ (IsUpper(Head(t)) \/ IsLower(Head(t))) /\ CharAt(t, 2) = ")"
        \/ SkipDigits(t, 1) > 1 /\ CharAt(t, SkipDigits(t, 1)) = "."
        \/ t # "" /\ Head(t) \in {"-", "*"}

looksLikeAnswer(text) == Len(text) < 50 \/ IsListItem(text)

\* text.replace(/^quiz\s+\d+:\s*/i, '')
StripQuizPrefix(text) == RemoveMatch(text, MatchAt(ToLowerCase(text), 1, QuizN))

\* text.replace(/^Question\s+\d+\s+of\s+\d+[:\s]*/i, '')
StripQuestionPrefix(text) ==
    RemoveMatch(text, MatchAt(ToLowerCase(text), 1, QuestionNofM \o <<"[:\\s]*">>))

\* the text Method 0 takes from the question-content element (0: none)
DoceboTextOf(el) ==
    IF el = 0 THEN ""
    ELSE Trim(StripQuestionPrefix(Trim(StripQuizPrefix(cleanText(textContent(el))))))

\* Method 0 of extractQuestionText
DoceboQuestionText(container) == DoceboTextOf(FirstOrNull(QuestionDivs(container)))

\* the element each entry of questionTextSelectors finds in the container (0: none)
questionTextSelectors(container) ==
    << FirstOrNull(QuerySelectorAll(container, LAMBDA n : ClassContains(n, "question-text"))),
       FirstOrNull(QuerySelectorAll(container, LAMBDA n : ClassContains(n, "question-title"))),
       FirstOrNull(QuerySelectorAll(container, LAMBDA n : ClassContains(n, "question-label"))),
       FirstOrNull(QuerySelectorAll(container, LAMBDA n : "dcbshquestioncontent" \in dom[n].attrs)),
       FirstOrNull(QuerySelectorAll(container,
            LAMBDA n : HasClass(n, "dcb-course-lesson-questions-question-content"))),
       FirstOrNull(QuerySelectorAll(container,
            LAMBDA n : dom[n].tag \in {"h1", "h2", "h3", "h4", "h5", "h6"})),
       FirstOrNull(QuerySelectorAll(container, LAMBDA n : FirstOfType(n, "p"))),
       FirstOrNull(QuerySelectorAll(container, LAMBDA n : FirstOfType(n, "label"))) >>

\* the text of an element when it is longer than 10 characters, else ""
LongTextOf(el) ==
    IF el = 0 THEN "" ELSE LongerThan10(cleanText(textContent(el)))

\* Method 1 of extractQuestionText
RECURSIVE FirstLongText(_)
FirstLongText(els) ==
    IF els = <<>> THEN ""
    ELSE OrElse(LongTextOf(Head(els)), FirstLongText(Tail(els)))

RECURSIVE JoinWithSpace(_)
JoinWithSpace(texts) ==
    IF texts = <<>> THEN ""
    ELSE IF Len(texts) = 1 THEN texts[1]
    ELSE texts[1] \o " " \o JoinWithSpace(Tail(texts))

NonEmpty(text) == IF text # "" THEN <<text>> ELSE <<>>

RECURSIVE CleanedTexts(_)
CleanedTexts(ns) ==
    IF ns = <<>> THEN <<>>
    ELSE NonEmpty(cleanText(dom[Head(ns)].text)) \o CleanedTexts(Tail(ns))

\* the text nodes walked before one is the element or lies inside it
TextNodesBefore(textNodes, stops) ==
    IF stops = {} THEN textNodes ELSE {n \in textNodes : n < Lowest(stops)}

\* the text nodes of the container are walked until one is the element or lies
\* inside it; the cleaned texts walked before that are joined
getTextBeforeElement(container, element) ==
    JoinWithSpace(CleanedTexts(InDocumentOrder(
        TextNodesBefore({n \in Descendants(container) : ~IsElement(n)},
                        {n \in Descendants(container) :
                            ~IsElement(n) /\ contains(element, n)}))))

\* Method 2 of extractQuestionText
TextBeforeFirstInput(container, firstInput) ==
    IF firstInput = 0 THEN ""
    ELSE LongerThan10(getTextBeforeElement(container, firstInput))

\* a line of Method 3 when it is taken for the question, else ""
QuestionLine(line) ==
    IF Len(line) > 10 /\ ~looksLikeAnswer(line) THEN line ELSE ""

\* Method 3 of extractQuestionText
RECURSIVE FirstQuestionLine(_)
FirstQuestionLine(lines) ==
    IF lines = <<>> THEN ""
    ELSE OrElse(QuestionLine(Trim(Head(lines))), FirstQuestionLine(Tail(lines)))

\* extractQuestionText; "" stands for null
extractQuestionText(container) ==
    OrElse(LongerThan10(DoceboQuestionText(container)),
    OrElse(FirstLongText(questionTextSelectors(container)),
    OrElse(TextBeforeFirstInput(container, FirstOrNull(Inputs(container))),
           FirstQuestionLine(SplitLines(textContent(container))))))

\* what extractQuestionData returns for null; questionNumber 0 - 1 stands for null
Null == [element |-> 0, questionText |-> "", answers |-> <<>>,
         questionNumber |-> 0 - 1, totalQuestions |-> 0 - 1, strategy |-> 0]

\* isAnswerDuplicate comparing the texts as they are written
isAnswerDuplicateCaseSensitive(questionText, answers) ==
    \E i \in 1..Len(answers) : Trim(answers[i].text) = Trim(questionText)

\* questionText equals one of the answers, both lower-cased and trimmed
isAnswerDuplicate(questionText, answers) ==
    \E i \in 1..Len(answers) :
        Trim(ToLowerCase(answers[i].text)) = Trim(ToLowerCase(questionText))

\* NewRecord reading the numbers off the text of the container
NewRecordNumbered(container, questionText, answers) ==
    [element |-> container, questionText |-> Trim(questionText),
     answers |-> answers,
     questionNumber |->
        IF questionNumberRegex(textContent(container)) = <<>> THEN 0 - 1
        ELSE parseInt(questionNumberRegex(textContent(container))[1]),
     totalQuestions |->
        IF questionNumberRegex(textContent(container)) = <<>> THEN 0 - 1
        ELSE parseInt(questionNumberRegex(textContent(container))[2]),
     strategy |-> 0]

\* the object extractQuestionData returns: both numbers are null
NewRecord(container, questionText, answers) ==
    [element |-> container, questionText |-> Trim(questionText),
     answers |-> answers, questionNumber |-> 0 - 1,
     totalQuestions |-> 0 - 1, strategy |-> 0]

\* QuestionRecord accepting fewer than 2 answers
QuestionRecordAnyAnswers(container, questionText, answers) ==
    IF questionText = "" THEN Null
    ELSE IF isAnswerDuplicate(questionText, answers) THEN Null
    ELSE NewRecord(container, questionText, answers)

\* what extractQuestionData returns for the extracted text and answers.  The
\* field strategy is not a field of the source's record: it notes which
\* strategy pushed the record.
QuestionRecord(container, questionText, answers) ==
    IF questionText = "" \/ Len(answers) < 2 THEN Null
    ELSE IF isAnswerDuplicate(questionText, answers) THEN Null
    ELSE NewRecord(container, questionText, answers)

\* extractQuestionData when nothing throws
extractQuestionData(container) ==
    IF container = 0 THEN Null
    ELSE QuestionRecord(container, extractQuestionText(container),
                        extractAnswers(container))

\* extractQuestionData throws: extractAnswers is called whenever a container is given
extractQuestionDataThrows(container) ==
    container # 0 /\ extractAnswersThrows(container)

(***************************************************************************)
(* Container resolution                                                    *)
(***************************************************************************)
RECURSIVE SomeClassIncludes(_, _)
SomeClassIncludes(classList, parts) ==
    IF classList = <<>> THEN FALSE
    ELSE \/ \E part \in parts : Includes(ToLowerCase(Head(classList)), part)
         \/ SomeClassIncludes(Tail(classList), parts)

isLikelyQuestionContainer(element) ==
    IF element = 0 \/ ~IsElement(element) THEN FALSE
    ELSE LET classList == dom[element].classList
             id == dom[element].id
             hasQuestionClass ==
                SomeClassIncludes(classList, {"question", "quiz", "item", "card", "panel"})
             hasQuestionId ==
                \E part \in {"question", "quiz", "item"} : Includes(ToLowerCase(id), part)
             hasQuestionText == HasQuestionN(textContent(element))
             hasMultipleInputs == Len(Inputs(element)) >= 2
             hasDoceboAttr == "dcbshquestioncontent" \in dom[element].attrs
             hasDoceboClass == SomeClassIncludes(classList, {"dcb-course-lesson-questions"})
             hasDoceboId == StartsWith(id, "dcb-sh-question-")
         IN  \/ hasQuestionClass \/ hasQuestionId
             \/ (hasQuestionText /\ hasMultipleInputs)
             \/ hasDoceboAttr \/ hasDoceboClass \/ hasDoceboId

\* the nearest of the given ancestors that contains every element, else the body
RECURSIVE FirstContainingAll(_, _)
FirstContainingAll(ancestor, elements) ==
    IF ancestor = 0 THEN Body
    ELSE IF \A i \in 1..Len(elements) : contains(ancestor, elements[i]) THEN ancestor
    ELSE FirstContainingAll(parentElement(ancestor), elements)

findCommonAncestor(elements) ==
    IF Len(elements) = 0 THEN 0
    ELSE IF Len(elements) = 1 THEN parentElement(elements[1])
    ELSE FirstContainingAll(parentElement(elements[1]), elements)

\* the walk up from an element to (not including) the body
RECURSIVE FirstLikelyContainer(_)
FirstLikelyContainer(element) ==
    IF element = 0 \/ element = Body THEN 0
    ELSE IF isLikelyQuestionContainer(element) THEN element
    ELSE FirstLikelyContainer(parentElement(element))

\* the element the walk of findQuestionContainer starts from
StartElement(node) == IF IsElement(node) THEN node ELSE parentElement(node)

\* the likely container found by the walk, else the common ancestor of the
\* inputs below the start element when there are two or more
ContainerOrAncestor(found, inputs) ==
    IF found # 0 THEN found
    ELSE IF Len(inputs) >= 2 THEN findCommonAncestor(inputs)
    ELSE 0

findQuestionContainer(node) ==
    ContainerOrAncestor(FirstLikelyContainer(StartElement(node)),
                        Inputs(StartElement(node)))

(***************************************************************************)
(* Strategies.  A strategy yields [threw, questions]: threw is TRUE when an *)
(* exception leaves the strategy, questions is the array it returns.       *)
(***************************************************************************)
\* the records of one strategy, each noting the strategy (by its place in the
\* constructor's list) that produced it
Tagged(result, i) ==
    [threw |-> result.threw,
     questions |-> [k \in 1..Len(result.questions) |->
                        [result.questions[k] EXCEPT !.strategy = i]]]

NoQuestions == [threw |-> FALSE, questions |-> <<>>]

InterrogativeWords ==
    {"what", "which", "how", "why", "when", "where", "who", "are", "is", "does", "do"}

LikelyAnswerWords == {"what", "which", "how", "why", "when", "where", "who"}

\* the three tests of detectByDoceboStructure on an extracted question
isAnswerList(questionTextLower) ==
    /\ SplitSpacesLength(questionTextLower) <= 5
    /\ ~Includes(questionTextLower, "?")
    /\ ~MatchesWord(questionTextLower, InterrogativeWords)

matchesMultipleAnswers(questionTextLower, answers) ==
    Cardinality({i \in 1..Len(answers) :
        Includes(questionTextLower, Substring(ToLowerCase(answers[i].text), 10))}) >= 2

isLikelyAnswer(questionTextLower) ==
    /\ Len(questionTextLower) < 20
    /\ ~Includes(questionTextLower, "?")
    /\ ~MatchesWord(questionTextLower, LikelyAnswerWords)

PassesValidation(questionTextLower, answers) ==
    /\ ~isLikelyAnswer(questionTextLower)
    /\ ~isAnswerList(questionTextLower)
    /\ ~matchesMultipleAnswers(questionTextLower, answers)

DoceboAccepts(question) ==
    /\ question # Null /\ Len(question.answers) >= 2 /\ question.questionText # ""
    /\ PassesValidation(ToLowerCase(question.questionText), question.answers)

\* an extracted question is pushed and its container marked when it is valid
DoceboPush(container, question, acc) ==
    IF DoceboAccepts(question)
    THEN [acc EXCEPT !.questions = Append(@, question),
                     !.processedContainers = @ \cup {container}]
    ELSE acc

\* the tests of both loops of detectByDoceboStructure before a container is
\* extracted; the first loop also asks for a question-content element
DoceboSkips(container, needsQuestionText, acc) ==
    \/ container = 0
    \/ container \in acc.processedContainers
    \/ Len(QuestionDivs(container)) > 1
    \/ Len(Inputs(container)) > 10
    \/ Len(Inputs(container)) < 2
    \/ needsQuestionText /\ QuestionDivs(container) = <<>>

\* one container of either loop; acc carries questions, processedContainers
\* and the loops whose try block has caught an exception
DoceboContainer(container, needsQuestionText, acc) ==
    IF DoceboSkips(container, needsQuestionText, acc) THEN acc
    ELSE IF extractQuestionDataThrows(container)
    THEN [acc EXCEPT !.stopped = @ \cup {needsQuestionText}]
    ELSE DoceboPush(container, extractQuestionData(container), acc)

\* contentDivs: the matches of the last of the four selectors that matches anything
LastNonEmpty(found) ==
    IF \A i \in 1..Len(found) : found[i] = <<>> THEN <<>>
    ELSE found[CHOOSE i \in 1..Len(found) :
                /\ found[i] # <<>>
                /\ \A j \in (i + 1)..Len(found) : found[j] = <<>>]

DoceboContentDivs ==
    LastNonEmpty(
        << QuerySelectorAll(0, LAMBDA n : "dcbshquestioncontent" \in dom[n].attrs),
           QuerySelectorAll(0,
                LAMBDA n : HasClass(n, "dcb-course-lesson-questions-question-content")),
           QuerySelectorAll(0,
                LAMBDA n : ClassContains(n, "dcb-course-lesson-questions-question")),
           QuerySelectorAll(0,
                LAMBDA n : ClassContains(n, "dcb") /\ ClassContains(n, "question")) >>)

\* the while loop over the parents of a content div (depth < 5)
RECURSIVE DoceboParentWalk(_, _)
DoceboParentWalk(parent, depth) ==
    IF parent = 0 \/ depth >= 5 THEN 0
    ELSE IF Len(QuestionDivs(parent)) > 1 THEN 0
    ELSE IF Len(Inputs(parent)) >= 2 /\ Len(Inputs(parent)) <= 10 THEN parent
    ELSE DoceboParentWalk(parentElement(parent), depth + 1)

\* the content div itself when it has 2 to 10 inputs
SelfContainer(element) ==
    IF Len(Inputs(element)) >= 2 /\ Len(Inputs(element)) <= 10 THEN element ELSE 0

FirstNonZero(a, b) == IF a # 0 THEN a ELSE b

DoceboContainerOf(element) ==
    FirstNonZero(closest(element, HasDoceboId),
    FirstNonZero(DoceboParentWalk(parentElement(element), 0),
                 SelfContainer(element)))

\* the containers both loops visit: the elements with the platform id, then
\* the container of every content div
DoceboItems ==
    [i \in 1..Len(QuerySelectorAll(0, HasDoceboId)) |->
        [container |-> QuerySelectorAll(0, HasDoceboId)[i], first |-> TRUE]]
    \o [i \in 1..Len(DoceboContentDivs) |->
        [container |-> DoceboContainerOf(DoceboContentDivs[i]), first |-> FALSE]]

\* the two forEach loops, each inside its own try block: an exception ends
\* the loop it occurs in and the other loop still runs
RECURSIVE DoceboLoops(_, _)
DoceboLoops(items, acc) ==
    IF items = <<>> THEN acc
    ELSE DoceboLoops(Tail(items),
            IF Head(items).first \in acc.stopped THEN acc
            ELSE DoceboContainer(Head(items).container, Head(items).first, acc))

detectByDoceboStructure ==
    Tagged([threw |-> FALSE,
            questions |-> DoceboLoops(DoceboItems,
                            [questions |-> <<>>, processedContainers |-> {},
                             stopped |-> {}]).questions], 1)

\* question.questionNumber and question.totalQuestions from the match groups
WithNumbers(question, match, acc) ==
    IF question = Null THEN acc
    ELSE [acc EXCEPT !.questions = Append(@,
            [question EXCEPT !.questionNumber = parseInt(match[1]),
                             !.totalQuestions = parseInt(match[2])])]

\* the body of the tree walker loop for one node
NumberPatternNode(match, questionElement, acc) ==
    IF match = <<>> \/ questionElement = 0 THEN acc
    ELSE IF extractQuestionDataThrows(questionElement) THEN [acc EXCEPT !.threw = TRUE]
    ELSE WithNumbers(extractQuestionData(questionElement), match, acc)

\* the tree walker loop of detectByQuestionNumberPattern
RECURSIVE NumberPatternWalk(_, _)
NumberPatternWalk(nodes, acc) ==
    IF nodes = <<>> \/ acc.threw THEN acc
    ELSE NumberPatternWalk(Tail(nodes),
            NumberPatternNode(questionNumberRegex(textContent(Head(nodes))),
                              findQuestionContainer(Head(nodes)), acc))

detectByQuestionNumberPattern ==
    Tagged(NumberPatternWalk(InDocumentOrder(Descendants(Body)), NoQuestions), 2)

\* a record is pushed when it is not null and has at least minAnswers answers
PushIf(question, minAnswers, acc) ==
    IF question # Null /\ Len(question.answers) >= minAnswers
    THEN [acc EXCEPT !.questions = Append(@, question)]
    ELSE acc

\* extractQuestionData on each element in turn, up to the first exception
RECURSIVE ExtractEach(_, _, _)
ExtractEach(elements, minAnswers, acc) ==
    IF elements = <<>> \/ acc.threw THEN acc
    ELSE ExtractEach(Tail(elements), minAnswers,
            IF extractQuestionDataThrows(Head(elements))
            THEN [acc EXCEPT !.threw = TRUE]
            ELSE PushIf(extractQuestionData(Head(elements)), minAnswers, acc))

\* a Map filled in the order of keys: the positions where a key other than
\* none occurs first, for the keys that occur at least twice
GroupHeads(keys, none) ==
    SelectSeq([i \in 1..Len(keys) |-> i], LAMBDA i :
        /\ keys[i] # none
        /\ \A j \in 1..(i - 1) : keys[j] # keys[i]
        /\ Cardinality({j \in 1..Len(keys) : keys[j] = keys[i]}) >= 2)

ValuesAt(values, positions) == [k \in 1..Len(positions) |-> values[positions[k]]]

ContainersOf(nodes) == [i \in 1..Len(nodes) |-> findQuestionContainer(nodes[i])]

\* the containers that group two or more inputs, in the order of inputGroups
GroupContainers(containers) == ValuesAt(containers, GroupHeads(containers, 0))

detectByCheckboxGrouping ==
    Tagged(ExtractEach(GroupContainers(ContainersOf(Inputs(0))), 2, NoQuestions), 3)

\* the radios with a name, in document order
NamedRadios ==
    SelectSeq(Inputs(0), LAMBDA radio : dom[radio].type = "radio" /\ dom[radio].name # "")

NamesOf(radios) == [i \in 1..Len(radios) |-> dom[radios[i]].name]

\* radios[0] of every group of two or more, in the order of radioGroups
FirstRadios(radios) == ValuesAt(radios, GroupHeads(NamesOf(radios), ""))

detectByRadioGrouping ==
    Tagged(ExtractEach(
            SelectSeq(ContainersOf(FirstRadios(NamedRadios)), LAMBDA c : c # 0),
            0, NoQuestions), 4)

\* the end of one forEach: a try/catch around it absorbs the exception
AfterPass(caught, result) ==
    IF caught THEN [result EXCEPT !.threw = FALSE] ELSE result

\* the forEach loops of a strategy in turn; every loop pushes to the same array
RECURSIVE ExtractPasses(_, _)
ExtractPasses(passes, acc) ==
    IF passes = <<>> \/ acc.threw THEN acc
    ELSE ExtractPasses(Tail(passes),
            AfterPass(Head(passes).caught, ExtractEach(Head(passes).elements, 2, acc)))

Caught(elements) == [elements |-> elements, caught |-> TRUE]

Uncaught(elements) == [elements |-> elements, caught |-> FALSE]

detectBySemanticHTML ==
    Tagged(ExtractPasses(
        << Uncaught(QuerySelectorAll(0, LAMBDA n : dom[n].tag = "fieldset")),
           Caught(QuerySelectorAll(0, LAMBDA n : ClassContains(n, "question"))),
           Caught(QuerySelectorAll(0, LAMBDA n : ClassContains(n, "quiz-item"))),
           Caught(QuerySelectorAll(0, LAMBDA n : ClassContains(n, "quiz-question"))),
           Caught(QuerySelectorAll(0,
                    LAMBDA n : dom[n].id # "" /\ Includes(dom[n].id, "question"))),
           Caught(QuerySelectorAll(0, LAMBDA n : "data-question" \in dom[n].attrs)),
           Caught(QuerySelectorAll(0, LAMBDA n : "data-quiz-item" \in dom[n].attrs)) >>,
        NoQuestions), 5)

detectByDataAttributes ==
    Tagged(ExtractPasses(
        << Caught(QuerySelectorAll(0, LAMBDA n : "data-question-id" \in dom[n].attrs)),
           Caught(QuerySelectorAll(0, LAMBDA n : "data-quiz-question" \in dom[n].attrs)),
           Caught(QuerySelectorAll(0, LAMBDA n : Includes(dom[n].dataTestid, "question"))),
           Caught(QuerySelectorAll(0, LAMBDA n : Includes(dom[n].dataCy, "question"))) >>,
        NoQuestions), 6)

(***************************************************************************)
(* Deduplication                                                           *)
(***************************************************************************)
\* answerTexts collecting the answers of the first question only
answerTextsOfFirst(qs) ==
    IF qs = <<>> THEN {}
    ELSE {Trim(ToLowerCase(qs[1].answers[j].text)) : j \in 1..Len(qs[1].answers)}

\* first pass: every answer text of every question, lower-cased and trimmed
answerTexts(qs) ==
    UNION {{Trim(ToLowerCase(qs[i].answers[j].text)) : j \in 1..Len(qs[i].answers)} :
            i \in 1..Len(qs)}

DedupKey(q) == Substring(Trim(ToLowerCase(q.questionText)), 50)

\* the second and third test of the second pass
DedupSkips(q, qs) ==
    LET questionTextLower == Trim(ToLowerCase(q.questionText))
    IN  \/ questionTextLower \in answerTexts(qs)
        \/ /\ Len(questionTextLower) < 15
           /\ ~Includes(questionTextLower, "?")
           /\ ~MatchesWord(questionTextLower, LikelyAnswerWords)
        \/ isAnswerDuplicate(q.questionText, q.answers)

\* DedupPass recording the key of a question before the question is tested
RECURSIVE DedupPassKeyFirst(_, _, _)
DedupPassKeyFirst(rest, seen, qs) ==
    IF rest = <<>> THEN <<>>
    ELSE LET q == Head(rest)
         IN  IF DedupKey(q) \in seen THEN DedupPassKeyFirst(Tail(rest), seen, qs)
             ELSE IF DedupSkips(q, qs)
                  THEN DedupPassKeyFirst(Tail(rest), seen \cup {DedupKey(q)}, qs)
             ELSE <<q>> \o DedupPassKeyFirst(Tail(rest), seen \cup {DedupKey(q)}, qs)

\* second pass over rest; seen holds the keys of the questions kept so far
RECURSIVE DedupPass(_, _, _)
DedupPass(rest, seen, qs) ==
    IF rest = <<>> THEN <<>>
    ELSE LET q == Head(rest)
         IN  IF DedupKey(q) \in seen THEN DedupPass(Tail(rest), seen, qs)
             ELSE IF DedupSkips(q, qs) THEN DedupPass(Tail(rest), seen, qs)
             ELSE <<q>> \o DedupPass(Tail(rest), seen \cup {DedupKey(q)}, qs)

deduplicateQuestions(qs) == DedupPass(qs, {}, qs)

(***************************************************************************)
(* detectQuestions                                                         *)
(***************************************************************************)
\* this.strategies with the last two strategies in the other order
strategiesSwapped(i) ==
    CASE i = 1 -> detectByDoceboStructure
      [] i = 2 -> detectByQuestionNumberPattern
      [] i = 3 -> detectByCheckboxGrouping
      [] i = 4 -> detectByRadioGrouping
      [] i = 5 -> detectByDataAttributes
      [] i = 6 -> detectBySemanticHTML

\* this.strategies, by position
strategies(i) ==
    CASE i = 1 -> detectByDoceboStructure
      [] i = 2 -> detectByQuestionNumberPattern
      [] i = 3 -> detectByCheckboxGrouping
      [] i = 4 -> detectByRadioGrouping
      [] i = 5 -> detectBySemanticHTML
      [] i = 6 -> detectByDataAttributes

NumStrategies == 6

\* the set of processed elements kept from one call to the next
KeptProcessedElements(previous) == previous

\* const processedElements = new WeakSet(): a fresh set for every call
NewProcessedElements(previous) == {}

\* PushFound with the later record replacing the one already pushed for the element
RECURSIVE PushFoundLastWins(_, _)
PushFoundLastWins(found, acc) ==
    IF found = <<>> THEN acc
    ELSE IF Head(found).element \in acc.processedElements
         THEN PushFoundLastWins(Tail(found),
                [acc EXCEPT !.questions =
                    [k \in 1..Len(@) |-> IF @[k].element = Head(found).element
                                          THEN Head(found) ELSE @[k]]])
         ELSE PushFoundLastWins(Tail(found),
                [questions |-> Append(acc.questions, Head(found)),
                 processedElements |-> acc.processedElements \cup {Head(found).element}])

\* the inner loop of detectQuestions: found records whose element is new are pushed
RECURSIVE PushFound(_, _)
PushFound(found, acc) ==
    IF found = <<>> THEN acc
    ELSE IF Head(found).element \in acc.processedElements
         THEN PushFound(Tail(found), acc)
         ELSE PushFound(Tail(found),
                [questions |-> Append(acc.questions, Head(found)),
                 processedElements |-> acc.processedElements \cup {Head(found).element}])

(***************************************************************************)
(* The documents the detector is run on.  A block is one question: a        *)
(* container, an element holding the question text, and two labels that    *)
(* each wrap an input and its answer text.                                  *)
(***************************************************************************)
ContainerNode(parent, kind, n) ==
    CASE kind = "docebo"   -> Div(parent, "dcb-sh-question-" \o n, <<>>, {})
      [] kind = "class"    -> Div(parent, "", <<"question">>, {})
      [] kind = "idq"      -> Div(parent, "question-" \o n, <<>>, {})
      [] kind = "fieldset" -> Plain(parent, "fieldset")
      [] kind = "data"     -> Div(parent, "", <<>>, {"data-question-id"})
      [] kind = "plain"    -> Div(parent, "", <<>>, {})

HolderNode(parent, holder) ==
    CASE holder = "content" ->
            Div(parent, "", <<"dcb-course-lesson-questions-question-content">>,
                {"dcbshquestioncontent"})
      [] holder = "h3"   -> Plain(parent, "h3")
      [] holder = "p"    -> Plain(parent, "p")
      [] holder = "span" -> Plain(parent, "span")

\* the nodes of block b, the container being node s, a child of node parent
BlockNodes(parent, s, b) ==
    << ContainerNode(parent, b.kind, b.n),
       HolderNode(s, b.holder),
       Text(s + 1, b.q),
       Label(s, ""),
       Input(s + 3, b.type, b.id1, b.inputClass, b.name, "on", b.c1),
       Text(s + 3, b.a1),
       Label(s, ""),
       Input(s + 6, b.type, b.id2, b.inputClass, b.name, "on", b.c2),
       Text(s + 6, b.a2) >>

QFrance == "What is the capital of France?"

DefaultBlock ==
    [kind |-> "docebo", holder |-> "content", n |-> "1", q |-> QFrance,
     a1 |-> "Paris", a2 |-> "Lyon", c1 |-> TRUE, c2 |-> FALSE,
     type |-> "checkbox", name |-> "", id1 |-> "", id2 |-> "", inputClass |-> <<>>]

BlockSize == Len(BlockNodes(Body, 2, DefaultBlock))

OneBlock(b) == <<BodyNode>> \o BlockNodes(Body, 2, b)

TwoBlocks(b1, b2) ==
    <<BodyNode>> \o BlockNodes(Body, 2, b1) \o BlockNodes(Body, 2 + BlockSize, b2)

\* three blocks inside one outer element
ThreeInside(outer, b1, b2, b3) ==
    <<BodyNode, outer>> \o BlockNodes(2, 3, b1) \o BlockNodes(2, 3 + BlockSize, b2)
        \o BlockNodes(2, 3 + 2 * BlockSize, b3)

Block(kind, holder, n, q, a1, a2) ==
    [DefaultBlock EXCEPT !.kind = kind, !.holder = holder, !.n = n, !.q = q,
                         !.a1 = a1, !.a2 = a2]

QRiver == "Which river runs through Paris?"

QRegions == "How many regions does France have?"

\* the usual holder of the question text in a container of each kind
HolderOf(kind) ==
    CASE kind \in {"docebo", "plain"} -> "content"
      [] kind \in {"class", "idq"} -> "h3"
      [] kind \in {"fieldset", "data"} -> "p"

\* one platform-marked question, the marker being the container id or only
\* the question-content attribute
PlatformTrees ==
    {OneBlock([DefaultBlock EXCEPT !.kind = kind, !.q = q, !.c1 = c1, !.c2 = c2]) :
        kind \in {"docebo", "plain"},
        q \in {QFrance, "Is it on?", "Is Paris or Lyon the capital?",
              "Question 1 of 5: Which city is the capital of France?"},
        c1 \in BOOLEAN, c2 \in BOOLEAN}
    \cup
    {OneBlock([DefaultBlock EXCEPT !.kind = kind, !.type = "radio", !.name = "g",
                                   !.a2 = a2]) :
        kind \in {"docebo", "plain"}, a2 \in {"Lyon", "B", "null"}}

\* a container whose only text is a list of answers
AnswerListTrees ==
    {OneBlock([Block(kind, holder, "1", "Subject Object Access permission",
                     "Subject", "Object")
                EXCEPT !.type = type, !.name = IF type = "radio" THEN "g" ELSE ""]) :
        kind \in {"docebo", "class", "idq", "fieldset", "data", "plain"},
        holder \in {"content", "h3"},
        type \in {"checkbox", "radio"}}

OuterNodes ==
    { Div(Body, "", <<>>, {}),
      Plain(Body, "fieldset"),
      Div(Body, "", <<"quiz-questions">>, {}),
      Div(Body, "dcb-sh-question-list", <<>>, {}),
      Div(Body, "", <<>>, {"data-question-id"}) }

Numbered(numbered, k, q) ==
    IF numbered THEN "Question " \o k \o " of 3 " \o q ELSE q

\* three well-formed questions inside one outer element
MergedTrees ==
    {ThreeInside(outer,
        Block(kind, HolderOf(kind), "1", Numbered(numbered, "1", QFrance), "Paris", "Lyon"),
        Block(kind, HolderOf(kind), "2", Numbered(numbered, "2", QRiver), "Seine", "Loire"),
        Block(kind, HolderOf(kind), "3", Numbered(numbered, "3", QRegions), "Thirteen", "Twenty")) :
        outer \in OuterNodes, kind \in {"docebo", "class", "fieldset"},
        numbered \in BOOLEAN}

\* an input whose id cannot stand inside label[for="..."]
BadId == "opt\"1"

ThrowTrees ==
    LET good(kind) == Block(kind, HolderOf(kind), "1", QFrance, "Paris", "Lyon")
        bad(kind) == [Block(kind, HolderOf(kind), "2", QRiver, "Seine", "Loire")
                        EXCEPT !.id1 = BadId]
    IN  {TwoBlocks(good(g), bad(b)) :
            g \in {"docebo", "data"}, b \in {"docebo", "class", "fieldset", "data"}}
        \cup
        {TwoBlocks(bad(b), good(g)) :
            g \in {"docebo", "data"}, b \in {"docebo", "class", "fieldset", "data"}}

\* the question text repeats an answer, or the first label is taken for the question
SelfAnswerTrees ==
    {OneBlock(Block(kind, HolderOf(kind), "1", "Paris is the capital",
                    "paris is the Capital", "Lyon")) :
        kind \in {"docebo", "class", "fieldset", "data"}}
    \cup
    {OneBlock(Block(kind, "span", "1", "Pick one", "The first long option", "Second")) :
        kind \in {"docebo", "class", "fieldset", "data"}}

\* two questions in containers of different kinds; the inputs may carry a
\* class of their own
OrderTrees ==
    {TwoBlocks([Block(k1, HolderOf(k1), "1", QFrance, "Paris", "Lyon")
                    EXCEPT !.inputClass = cls],
               [Block(k2, HolderOf(k2), "2", q2, "Seine", "Loire")
                    EXCEPT !.inputClass = cls]) :
        k1 \in {"docebo", "class", "idq", "fieldset", "data"},
        k2 \in {"docebo", "class", "idq", "fieldset", "data"},
        cls \in {<<>>, <<"quiz-option">>},
        q2 \in {QRiver}}

\* questions with the same text, and a question too short to be kept
DuplicateTrees ==
    {TwoBlocks(Block(k1, HolderOf(k1), "1", QFrance, "Paris", "Lyon"),
               Block(k2, HolderOf(k2), "2", QFrance, "Seine", "Loire")) :
        k1 \in {"docebo", "class", "fieldset"}, k2 \in {"class", "fieldset", "data"}}
    \cup
    {OneBlock(Block(kind, HolderOf(kind), "1", q, "Red", "Blue")) :
        kind \in {"docebo", "class", "fieldset"},
        q \in {"Pick a color", "Pick a colour now", "Who is first?"}}

\* a well-formed question next to one with a single usable answer
FewAnswerTrees ==
    {TwoBlocks([Block(kind, HolderOf(kind), "1", QFrance, "Paris", "Lyon")
                    EXCEPT !.type = "radio", !.name = "g"],
               [Block(kind, HolderOf(kind), "2", QRiver, "Seine", a2)
                    EXCEPT !.type = "radio", !.name = "h"]) :
        kind \in {"docebo", "class"}, a2 \in {"B", "null"}}

\* one more labelled input as the last child of the element at node s, the
\* label becoming node at
ExtraAnswer(s, at, type, name, text) ==
    << Label(s, ""), Input(at, type, "", <<>>, name, "on", FALSE), Text(at, text) >>

\* a question with three answers, some of them texts the detector discards
JunkAnswerTrees ==
    {OneBlock(Block(kind, HolderOf(kind), "1", QFrance, "Paris", a2))
        \o ExtraAnswer(2, 2 + BlockSize, "checkbox", "", a3) :
        kind \in {"docebo", "class", "fieldset"},
        a2 \in {"Lyon", "null"},
        a3 \in {"Nice", "NULL", "x", "Renew the subscription now",
                "Please terminate the Subscription"}}

\* a chain of depth plain elements below node s, the first being node s + 3
Wrappers(s, depth) ==
    [d \in 1..depth |-> Div(IF d = 1 THEN s ELSE s + 1 + d, "", <<>>, {})]

\* one question whose two labelled inputs lie depth elements below the
\* element that holds the question text
DeepBlock(kind, depth, q, a1, a2) ==
    << BodyNode, ContainerNode(Body, kind, "1"), HolderNode(2, HolderOf(kind)),
       Text(3, q) >>
    \o Wrappers(2, depth)
    \o << Label(4 + depth, ""),
          Input(5 + depth, "checkbox", "", <<>>, "", "on", FALSE),
          Text(5 + depth, a1),
          Label(4 + depth, ""),
          Input(8 + depth, "checkbox", "", <<>>, "", "on", FALSE),
          Text(8 + depth, a2) >>

DeepTrees ==
    {DeepBlock(kind, depth, QFrance, "Paris", "Lyon") :
        kind \in {"class", "idq", "data"}, depth \in {1, 3, 4}}

\* labelled inputs with the given texts appended to the element at node s,
\* the first label becoming node at
RECURSIVE ExtraAnswers(_, _, _)
ExtraAnswers(s, at, texts) ==
    IF texts = <<>> THEN <<>>
    ELSE ExtraAnswer(s, at, "checkbox", "", Head(texts))
            \o ExtraAnswers(s, at + 3, Tail(texts))

Cities == <<"Nice", "Lille", "Brest", "Metz", "Tours", "Dijon", "Nancy", "Rouen", "Caen">>

\* one question with 10 or 11 answers
ManyAnswerTrees ==
    {OneBlock(Block(kind, HolderOf(kind), "1", QFrance, "Paris", "Lyon"))
        \o ExtraAnswers(2, 2 + BlockSize, SubSeq(Cities, 1, extra)) :
        kind \in {"docebo", "class", "fieldset"}, extra \in {8, 9}}

\* three questions marked only by their question-content elements, inside
\* one outer element
BroadTrees ==
    {ThreeInside(outer,
        Block("plain", "content", "1", Numbered(numbered, "1", QFrance), "Paris", "Lyon"),
        Block("plain", "content", "2", Numbered(numbered, "2", QRiver), "Seine", "Loire"),
        Block("plain", "content", "3", Numbered(numbered, "3", QRegions), "Thirteen", "Twenty")) :
        outer \in OuterNodes, numbered \in BOOLEAN}

\* one or two questions in markup without keyword or platform marker
NoMarkerTrees ==
    {OneBlock([Block("plain", holder, "1", QFrance, "Paris", "Lyon")
                EXCEPT !.type = type, !.name = IF type = "radio" THEN "g" ELSE ""]) :
        holder \in {"p", "h3"}, type \in {"checkbox", "radio"}}
    \cup
    {TwoBlocks([Block("plain", "p", "1", QFrance, "Paris", "Lyon")
                    EXCEPT !.type = "radio", !.name = "g"],
               [Block("plain", "p", "2", QRiver, "Seine", "Loire")
                    EXCEPT !.type = "radio", !.name = "h"])}

\* the question text stands in a span, which no selector of Method 1 finds
SpanTrees ==
    {OneBlock(Block(kind, "span", "1", q, "Paris", "Lyon")) :
        kind \in {"class", "fieldset", "data"}, q \in {"Capital?", QFrance}}

\* each input is followed by an empty label, styled as the box, and by the
\* answer text; the label may name the input in its for attribute
SiblingLabelTrees ==
    {<< BodyNode, ContainerNode(Body, kind, "1"), Plain(2, "h3"), Text(3, QFrance),
        Input(2, "checkbox", "a1", <<>>, "", "on", FALSE),
        Label(2, IF for THEN "a1" ELSE ""), Text(2, "Paris"),
        Input(2, "checkbox", "a2", <<>>, "", "on", FALSE),
        Label(2, IF for THEN "a2" ELSE ""), Text(2, "Lyon") >> :
        kind \in {"class", "fieldset", "docebo"}, for \in BOOLEAN}

\* short question texts, with and without an auxiliary verb
ShortTextTrees ==
    {OneBlock(Block(kind, HolderOf(kind), "1", q, "True", "False")) :
        kind \in {"docebo", "class", "fieldset"},
        q \in {"Rome is in Italy", "Sky is blue", "Capital of France", "Choose a city"}}

Trees ==
    PlatformTrees \cup AnswerListTrees \cup MergedTrees \cup ThrowTrees
        \cup SelfAnswerTrees \cup OrderTrees \cup DuplicateTrees
        \cup FewAnswerTrees \cup JunkAnswerTrees \cup DeepTrees
        \cup ManyAnswerTrees \cup BroadTrees \cup NoMarkerTrees \cup SpanTrees \cup SiblingLabelTrees \cup ShortTextTrees

(***************************************************************************)
(* The content script and the Reveal All runs before the page loads them   *)
(***************************************************************************)
\* let isExtensionEnabled = false; let mutationObserver = null
ContentScriptNotLoaded ==
    /\ isExtensionEnabled = FALSE
    /\ mutationObserver = 0
    /\ observers = <<>>
    /\ polls = <<>>
    /\ timers = <<>>
    /\ page = 0
    /\ ui = [revealAll |-> FALSE, reveal |-> {}]
    /\ quizSolverQuestions = 0

NoRevealRun ==
    /\ numQuestions = 0
    /\ runs = <<>>
    /\ requests = <<>>

\* a new button is enabled; nobody has clicked it
NoRevealClick ==
    /\ buttonDisabled = FALSE
    /\ clicks = <<>>

(***************************************************************************)
(* The state machine: calls of detectQuestions on the document             *)
(***************************************************************************)
Init ==
    /\ dom \in Trees
    /\ ContentScriptNotLoaded
    /\ NoRevealRun
    /\ NoRevealClick
    /\ pc = "idle"
    /\ strategyIndex = 0
    /\ questions = <<>>
    /\ processedElements = {}
    /\ foundBy = <<>>
    /\ returned = <<>>
    /\ calls = 0

\* detectQuestions is called: its locals are created
CallDetectQuestions ==
    /\ pc = "idle"
    /\ calls < MaxCalls
    /\ calls' = calls + 1
    /\ questions' = <<>>
    /\ processedElements' = NewProcessedElements(processedElements)
    /\ foundBy' = <<>>
    /\ strategyIndex' = 1
    /\ pc' = "strategies"
    /\ UNCHANGED <<dom, returned>>
    /\ UNCHANGED <<contentVars, revealVars, buttonVars>>

\* the assignments of one iteration: found is what the strategy returned,
\* pushed the locals after the inner loop
Pushes(found, pushed) ==
    /\ questions' = pushed.questions
    /\ processedElements' = pushed.processedElements
    /\ foundBy' = Append(foundBy, found)

PushedFrom(found) ==
    PushFound(found, [questions |-> questions, processedElements |-> processedElements])

Returns(result) ==
    /\ ~result.threw
    /\ Pushes(result.questions, PushedFrom(result.questions))

\* one iteration of the loop over this.strategies, the strategy returning
RunStrategy ==
    /\ pc = "strategies"
    /\ strategyIndex <= NumStrategies
    /\ Returns(strategies(strategyIndex))
    /\ strategyIndex' = strategyIndex + 1
    /\ UNCHANGED <<dom, pc, returned, calls>>
    /\ UNCHANGED <<contentVars, revealVars, buttonVars>>

\* the strategy throws: nothing in detectQuestions catches, the call ends
\* with the exception
StrategyThrows ==
    /\ pc = "strategies"
    /\ strategyIndex <= NumStrategies
    /\ strategies(strategyIndex).threw
    /\ returned' = Append(returned, [threw |-> TRUE, questions |-> <<>>])
    /\ pc' = "idle"
    /\ UNCHANGED <<dom, strategyIndex, questions, processedElements, foundBy, calls>>
    /\ UNCHANGED <<contentVars, revealVars, buttonVars>>

\* return this.deduplicateQuestions(questions)
ReturnDeduplicated ==
    /\ pc = "strategies"
    /\ strategyIndex > NumStrategies
    /\ returned' = Append(returned,
                        [threw |-> FALSE, questions |-> deduplicateQuestions(questions)])
    /\ pc' = "idle"
    /\ UNCHANGED <<dom, strategyIndex, questions, processedElements, foundBy, calls>>
    /\ UNCHANGED <<contentVars, revealVars, buttonVars>>

Next == CallDetectQuestions \/ RunStrategy \/ StrategyThrows \/ ReturnDeduplicated

Spec == Init /\ [][Next]_vars

(***************************************************************************)
(* deduplicateQuestions on its own, applied to lists of question records   *)
(***************************************************************************)
MaxRecords == 3

Answer(text) == [element |-> 0, text |-> text, isSelected |-> FALSE, value |-> "on"]

Record(element, questionText, a1, a2) ==
    [element |-> element, questionText |-> questionText,
     answers |-> <<Answer(a1), Answer(a2)>>,
     questionNumber |-> 0 - 1, totalQuestions |-> 0 - 1, strategy |-> 0]

\* two questions that agree on their first 50 characters
QSpring == "Which of these flowers is the first one to open its buds in spring?"

QAutumn == "Which of these flowers is the first one to open its leaves in autumn?"

RecordPool ==
    { Record(2, QSpring, "Crocus", "Tulip"),
      Record(3, QAutumn, "Aster", "Dahlia"),
      Record(4, QFrance, "Paris", ToLowerCase(QSpring)),
      Record(5, "what is the capital of France?", "Paris", "Lyon"),
      Record(6, "Pick a color", "Red", "Blue"),
      Record(7, "Paris is the capital", "paris is the Capital ", "Lyon") }

RECURSIVE ListsUpTo(_)
ListsUpTo(n) ==
    IF n = 0 THEN {<<>>}
    ELSE ListsUpTo(n - 1)
            \cup {Append(l, r) : l \in {x \in ListsUpTo(n - 1) : Len(x) = n - 1},
                                 r \in RecordPool}

InitDedup ==
    /\ dom = <<BodyNode>>
    /\ ContentScriptNotLoaded
    /\ NoRevealRun
    /\ NoRevealClick
    /\ pc = "dedup"
    /\ strategyIndex = 0
    /\ questions \in ListsUpTo(MaxRecords)
    /\ processedElements = {}
    /\ foundBy = <<>>
    /\ returned = <<>>
    /\ calls = 0

DeduplicateOnly ==
    /\ pc = "dedup"
    /\ returned' = <<[threw |-> FALSE, questions |-> deduplicateQuestions(questions)]>>
    /\ pc' = "deduped"
    /\ UNCHANGED <<dom, strategyIndex, questions, processedElements, foundBy, calls>>
    /\ UNCHANGED <<contentVars, revealVars, buttonVars>>

NextDedup == DeduplicateOnly

SpecDedup == InitDedup /\ [][NextDedup]_vars

(***************************************************************************)
(* The content script: starting and stopping the extension.  page is the   *)
(* number of questions detectQuestions finds on the page; a page with a    *)
(* question has selectable inputs.  observers[o] is lastQuestionCount in   *)
(* the closure of the o-th MutationObserver; polls holds the attempts of   *)
(* every pending checkContent timer, timers the observer of every pending  *)
(* 500 ms detection timer.                                                 *)
(***************************************************************************)
MaxPolls == 1

MaxObservers == 2

MaxPage == 2

MaxTimers == 1

\* function waitForContent(callback, maxAttempts = 50)
maxAttempts == 50

RemoveAt(seq, i) == SubSeq(seq, 1, i - 1) \o SubSeq(seq, i + 1, Len(seq))

NoUI == [revealAll |-> FALSE, reveal |-> {}]

\* addRevealAllButton(questions) and addRevealButtons(questions) for n
\* questions: buttons that exist are not added again
AddButtons(before, n) ==
    IF n = 0 THEN before
    ELSE [revealAll |-> TRUE, reveal |-> before.reveal \cup (1..n)]

\* stopExtension: the observer is disconnected, cleanupExtensionUI
StopExtension ==
    /\ mutationObserver' = 0
    /\ ui' = NoUI
    /\ quizSolverQuestions' = 0
    /\ UNCHANGED <<observers, polls, timers, page>>

\* startExtension: nothing when an observer runs, else waitForContent sets
\* its first timer
StartExtension ==
    /\ mutationObserver = 0 => Len(polls) < MaxPolls
    /\ polls' = IF mutationObserver # 0 THEN polls ELSE Append(polls, 0)
    /\ UNCHANGED <<mutationObserver, observers, timers, page, ui, quizSolverQuestions>>

\* the listener of chrome.runtime.onMessage for extensionStateChanged
ExtensionStateChanged ==
    /\ pc = "content"
    /\ \E enabled \in BOOLEAN :
          /\ isExtensionEnabled' = enabled
          /\ IF enabled THEN StartExtension ELSE StopExtension
    /\ UNCHANGED <<detectorVars, revealVars, buttonVars>>

\* the callback of waitForContent: initQuestionDetector, observeForQuestions
ContentCallback ==
    /\ Len(observers) < MaxObservers
    /\ quizSolverQuestions' = IF page = 0 THEN quizSolverQuestions ELSE page
    /\ ui' = AddButtons(ui, page)
    /\ observers' = Append(observers, 0)
    /\ mutationObserver' = Len(observers) + 1

\* checkContent giving up after more than maxAttempts attempts
checkContentOneMore(i) ==
    /\ pc = "content"
    /\ IF page > 0 \/ polls[i] + 1 > maxAttempts
       THEN /\ ContentCallback
            /\ polls' = RemoveAt(polls, i)
       ELSE /\ polls' = [polls EXCEPT ![i] = @ + 1]
            /\ UNCHANGED <<mutationObserver, observers, ui, quizSolverQuestions>>
    /\ UNCHANGED <<isExtensionEnabled, timers, page>>
    /\ UNCHANGED <<detectorVars, revealVars, buttonVars>>

\* const checkContent = () => {...}, run by the i-th pending timer
checkContent(i) ==
    /\ pc = "content"
    /\ IF page > 0 \/ polls[i] + 1 >= maxAttempts
       THEN /\ ContentCallback
            /\ polls' = RemoveAt(polls, i)
       ELSE /\ polls' = [polls EXCEPT ![i] = @ + 1]
            /\ UNCHANGED <<mutationObserver, observers, ui, quizSolverQuestions>>
    /\ UNCHANGED <<isExtensionEnabled, timers, page>>
    /\ UNCHANGED <<detectorVars, revealVars, buttonVars>>

\* the page adds a question; the callback of a connected observer sees the
\* added inputs and sets its 500 ms timer
PageMutates ==
    /\ pc = "content"
    /\ page < MaxPage
    /\ mutationObserver # 0 => Len(timers) < MaxTimers
    /\ page' = page + 1
    /\ timers' = IF mutationObserver # 0 THEN Append(timers, mutationObserver) ELSE timers
    /\ UNCHANGED <<isExtensionEnabled, mutationObserver, observers, polls, ui,
                   quizSolverQuestions>>
    /\ UNCHANGED <<detectorVars, revealVars, buttonVars>>

\* the page replaces its questions by as many or fewer new ones; the buttons
\* inside the removed questions go with them, the Reveal All button may stand
\* outside.  The callback of a connected observer sees the added inputs and
\* sets its 500 ms timer
PageReplaces ==
    /\ pc = "content"
    /\ page > 0
    /\ mutationObserver # 0 => Len(timers) < MaxTimers
    /\ \E n \in 1..page : \E outside \in BOOLEAN :
          /\ page' = n
          /\ ui' = [revealAll |-> ui.revealAll /\ outside, reveal |-> {}]
    /\ timers' = IF mutationObserver # 0 THEN Append(timers, mutationObserver) ELSE timers
    /\ UNCHANGED <<isExtensionEnabled, mutationObserver, observers, polls,
                   quizSolverQuestions>>
    /\ UNCHANGED <<detectorVars, revealVars, buttonVars>>

\* a 500 ms timer of an observer fires: detectQuestions, and the page gets
\* its buttons when there are more questions than the observer last saw
DetectionTimerOf(k) ==
    /\ pc = "content"
    /\ IF page > observers[timers[k]]
       THEN /\ observers' = [observers EXCEPT ![timers[k]] = page]
            /\ quizSolverQuestions' = page
            /\ ui' = AddButtons(ui, page)
       ELSE UNCHANGED <<observers, quizSolverQuestions, ui>>
    /\ timers' = RemoveAt(timers, k)
    /\ UNCHANGED <<isExtensionEnabled, mutationObserver, polls, page>>
    /\ UNCHANGED <<detectorVars, revealVars, buttonVars>>

\* a timer of waitForContent fires
CheckContent == \E i \in 1..Len(polls) : checkContent(i)

\* a 500 ms detection timer fires
DetectionTimer == \E k \in 1..Len(timers) : DetectionTimerOf(k)

\* the script is loaded: checkExtensionEnabled reads the stored setting and
\* starts the extension when it is enabled
InitContent ==
    /\ dom = <<BodyNode>>
    /\ pc = "content"
    /\ strategyIndex = 0
    /\ questions = <<>>
    /\ processedElements = {}
    /\ foundBy = <<>>
    /\ returned = <<>>
    /\ calls = 0
    /\ isExtensionEnabled \in BOOLEAN
    /\ mutationObserver = 0
    /\ observers = <<>>
    /\ polls = IF isExtensionEnabled THEN <<0>> ELSE <<>>
    /\ timers = <<>>
    /\ page = 0
    /\ ui = NoUI
    /\ quizSolverQuestions = 0
    /\ NoRevealRun
    /\ NoRevealClick

NextContent ==
    \/ ExtensionStateChanged
    \/ CheckContent
    \/ PageMutates
    \/ PageReplaces
    \/ DetectionTimer

SpecContent == InitContent /\ [][NextContent]_vars

(***************************************************************************)
(* handleRevealAllClick.  A run is one call of the handler: its phase, the *)
(* loop index i and its two counters.  requests[r] logs the calls of       *)
(* aiService.getAnswer of run r in the order they were made: the question  *)
(* (1 is questions[0]) and whether the call is pending, resolved or        *)
(* rejected.                                                               *)
(***************************************************************************)
MaxQuestions == 2

MaxRuns == 2

\* the click handler is called: await getAIService()
RevealAllClick ==
    /\ pc = "reveal"
    /\ Len(runs) < MaxRuns
    \* the button of a run that passed the two checks is disabled
    /\ \A r \in 1..Len(runs) : runs[r].phase \in {"service", "returned"}
    /\ runs' = Append(runs, [phase |-> "service", i |-> 0, successCount |-> 0,
                             errorCount |-> 0])
    /\ requests' = Append(requests, <<>>)
    /\ UNCHANGED numQuestions
    /\ UNCHANGED <<detectorVars, contentVars, buttonVars>>

\* the log of a run after a step: a run entering the loop body calls getAnswer
Issue(run, log) ==
    IF run.phase = "request"
    THEN Append(log, [question |-> run.i + 1, state |-> "pending"])
    ELSE log

\* the test i < questions.length of the for loop
LoopTest(run) ==
    [run EXCEPT !.phase = IF run.i < numQuestions THEN "request" ELSE "finished"]

\* i++ and the loop test
Advance(run) == LoopTest([run EXCEPT !.i = @ + 1])

\* the catch block counting the error and ending the loop
AfterFailureStops(run) ==
    [run EXCEPT !.errorCount = @ + 1, !.phase = "finished"]

\* the catch block of the loop body: the error is counted, the loop goes on
AfterFailure(run) == Advance([run EXCEPT !.errorCount = @ + 1])

\* after highlightCorrectAnswers: the success is counted; 500 ms are awaited
\* unless the question is the last one
AfterSuccess(run) ==
    IF run.i < numQuestions - 1
    THEN [run EXCEPT !.successCount = @ + 1, !.phase = "delay"]
    ELSE Advance([run EXCEPT !.successCount = @ + 1])

\* the log of a run whose pending call, the last one made, settles
Settle(log, state) == [log EXCEPT ![Len(log)].state = state]

\* run r moves to the state next, its log being settled
Continue(r, next, settled) ==
    /\ runs' = [runs EXCEPT ![r] = next]
    /\ requests' = [requests EXCEPT ![r] = Issue(next, settled)]
    /\ UNCHANGED numQuestions
    /\ UNCHANGED <<detectorVars, contentVars, buttonVars>>

\* getAIService resolves: the handler returns without a service or a key,
\* else it enters the loop
ServiceResolves ==
    /\ pc = "reveal"
    /\ \E r \in 1..Len(runs) : \E usable \in BOOLEAN :
          /\ runs[r].phase = "service"
          /\ Continue(r, IF usable THEN LoopTest(runs[r])
                         ELSE [runs[r] EXCEPT !.phase = "returned"], requests[r])

\* getAnswer resolves; highlightCorrectAnswers may throw inside the try block
AnswerResolves ==
    /\ pc = "reveal"
    /\ \E r \in 1..Len(runs) : \E highlightThrows \in BOOLEAN :
          /\ runs[r].phase = "request"
          /\ Continue(r, IF highlightThrows THEN AfterFailure(runs[r])
                         ELSE AfterSuccess(runs[r]),
                      Settle(requests[r], "resolved"))

\* getAnswer rejects
AnswerRejects ==
    /\ pc = "reveal"
    /\ \E r \in 1..Len(runs) :
          /\ runs[r].phase = "request"
          /\ Continue(r, AfterFailure(runs[r]),
                      Settle(requests[r], "rejected"))

\* the 500 ms between two requests have passed
DelayElapses ==
    /\ pc = "reveal"
    /\ \E r \in 1..Len(runs) :
          /\ runs[r].phase = "delay"
          /\ Continue(r, Advance(runs[r]), requests[r])

\* the Reveal All button exists for a list of at least one question
InitReveal ==
    /\ dom = <<BodyNode>>
    /\ pc = "reveal"
    /\ strategyIndex = 0
    /\ questions = <<>>
    /\ processedElements = {}
    /\ foundBy = <<>>
    /\ returned = <<>>
    /\ calls = 0
    /\ ContentScriptNotLoaded
    /\ numQuestions \in 1..MaxQuestions
    /\ runs = <<>>
    /\ requests = <<>>
    /\ NoRevealClick

NextReveal ==
    \/ RevealAllClick
    \/ ServiceResolves
    \/ AnswerResolves
    \/ AnswerRejects
    \/ DelayElapses

SpecReveal == InitReveal /\ [][NextReveal]_vars

(***************************************************************************)
(* The Reveal button of one question.  clicks[h] is the position of the    *)
(* h-th call of handleRevealClick: "service" while getAIService is         *)
(* awaited, "answer" while getAnswer is awaited, else how the call ended.  *)
(***************************************************************************)
MaxClicks == 3

\* the handler h moves to the given position, the button being set
Handler(h, position, disabled) ==
    /\ clicks' = [clicks EXCEPT ![h] = position]
    /\ buttonDisabled' = disabled
    /\ UNCHANGED <<detectorVars, contentVars, revealVars>>

\* a click on the enabled button calls handleRevealClick: await getAIService()
RevealClick ==
    /\ pc = "button"
    /\ ~buttonDisabled
    /\ Len(clicks) < MaxClicks
    /\ clicks' = Append(clicks, "service")
    /\ UNCHANGED buttonDisabled
    /\ UNCHANGED <<detectorVars, contentVars, revealVars>>

\* getAIService resolves: the handler returns without a service or a key,
\* else it disables the button and calls getAnswer
ButtonServiceResolves ==
    /\ pc = "button"
    /\ \E h \in 1..Len(clicks) : \E usable \in BOOLEAN :
          /\ clicks[h] = "service"
          /\ IF usable THEN Handler(h, "answer", TRUE)
             ELSE Handler(h, "returned", buttonDisabled)

\* getAnswer resolves; highlightCorrectAnswers may throw inside the try block
ButtonAnswerResolves ==
    /\ pc = "button"
    /\ \E h \in 1..Len(clicks) : \E highlightThrows \in BOOLEAN :
          /\ clicks[h] = "answer"
          /\ IF highlightThrows THEN Handler(h, "failed", FALSE)
             ELSE Handler(h, "revealed", TRUE)

\* getAnswer rejects: the catch block enables the button
ButtonAnswerRejects ==
    /\ pc = "button"
    /\ \E h \in 1..Len(clicks) :
          /\ clicks[h] = "answer"
          /\ Handler(h, "failed", FALSE)

\* the button of one question has been inserted
InitButton ==
    /\ dom = <<BodyNode>>
    /\ pc = "button"
    /\ strategyIndex = 0
    /\ questions = <<>>
    /\ processedElements = {}
    /\ foundBy = <<>>
    /\ returned = <<>>
    /\ calls = 0
    /\ ContentScriptNotLoaded
    /\ NoRevealRun
    /\ NoRevealClick

NextButton ==
    \/ RevealClick
    \/ ButtonServiceResolves
    \/ ButtonAnswerResolves
    \/ ButtonAnswerRejects

SpecButton == InitButton /\ [][NextButton]_vars

(***************************************************************************)
(* Properties                                                              *)
(***************************************************************************)
\* the last call of detectQuestions has returned normally
Completed == pc = "idle" /\ returned # <<>> /\ ~returned[Len(returned)].threw

\* what the last call returned
Last == returned[Len(returned)].questions

\* the strategies of the last call that produced a record for element e
ProducersOf(e) ==
    {i \in 1..Len(foundBy) : \E k \in 1..Len(foundBy[i]) : foundBy[i][k].element = e}

RecordsFor(e) == {i \in 1..Len(Last) : Last[i].element = e}

\* C1: every record returned by detectQuestions has at least 2 answers and a
\* non-empty questionText
C1_TwoAnswersAndText ==
    \A k \in 1..Len(returned) : \A i \in 1..Len(returned[k].questions) :
        /\ Len(returned[k].questions[i].answers) >= 2
        /\ Trim(returned[k].questions[i].questionText) # ""

\* a call has returned a record although a container of the document has
\* fewer than two valid answers
C1_Witness ==
    /\ Completed /\ Last # <<>>
    /\ \E e \in Nodes : Len(Inputs(e)) >= 2 /\ Len(extractAnswers(e)) < 2

\* C2 as stated: a container that two or more strategies resolve to has exactly
\* one returned record, the one of the earliest strategy, and no two returned
\* records share a container
C2_ExactlyOnePerContainer ==
    Completed =>
        /\ \A e \in Nodes : Cardinality(ProducersOf(e)) >= 2 =>
              /\ Cardinality(RecordsFor(e)) = 1
              /\ \A i \in RecordsFor(e) : Last[i].strategy = Lowest(ProducersOf(e))
        /\ \A i, j \in 1..Len(Last) : i # j => Last[i].element # Last[j].element

\* C2 amended: no two returned records share a container, and a returned
\* record is the one produced by the earliest strategy that resolved to its
\* container (the deduplicator may still drop the record of such a container)
C2_AtMostOnePerContainer ==
    Completed =>
        /\ \A i, j \in 1..Len(Last) : i # j => Last[i].element # Last[j].element
        /\ \A i \in 1..Len(Last) :
              /\ ProducersOf(Last[i].element) # {}
              /\ Last[i].strategy = Lowest(ProducersOf(Last[i].element))

\* a returned record whose container two or more strategies resolved to
C2_Witness ==
    Completed /\ \E i \in 1..Len(Last) : Cardinality(ProducersOf(Last[i].element)) >= 2

\* the three question containers inside the outer element (node 2)
SubContainers == {n \in Nodes : dom[n].parent = 2}

\* C3: for an outer element holding three well-formed question containers,
\* detectQuestions returns exactly three records, one per inner container,
\* none for the outer element and none with merged answers
C3_ThreeRecords ==
    (Completed /\ dom \in MergedTrees) =>
        /\ Len(Last) = 3
        /\ {Last[i].element : i \in 1..Len(Last)} = SubContainers
        /\ \A i \in 1..Len(Last) : Len(Last[i].answers) = 2

\* C4: no returned record has a question text of at most 5 tokens without "?"
\* and without an interrogative keyword
C4_NoAnswerListRecord ==
    \A k \in 1..Len(returned) : \A i \in 1..Len(returned[k].questions) :
        ~isAnswerList(ToLowerCase(returned[k].questions[i].questionText))

\* C5: a strategy that throws does not end the call: detectQuestions always
\* returns normally
C5_IsolatedFailure == \A k \in 1..Len(returned) : ~returned[k].threw

\* C6: all calls of detectQuestions on the unchanged document return the same
\* records in the same order
C6_SameResultEveryCall ==
    \A j, k \in 1..Len(returned) : returned[j] = returned[k]

\* two calls have returned, with records
C6_Witness == Len(returned) >= 2 /\ returned[2].questions # <<>>

\* text is one of the answer texts, letter case and outer whitespace aside
EqualsAnAnswer(text, answers) ==
    LET t == Trim(ToLowerCase(text))
    IN  \E i \in 1..Len(answers) : Trim(ToLowerCase(answers[i].text)) = t

\* the question text extracted from container e equals one of the answers
\* extracted from it
SelfAnswering(e) ==
    e # 0 /\ EqualsAnAnswer(extractQuestionText(e), extractAnswers(e))

\* C7: a container whose extracted question text equals one of its own answers
\* has no record, neither among the records the strategies push nor among the
\* returned ones, and no returned record's text equals one of its answers
C7_NoSelfAnswerRecord ==
    /\ \A i \in 1..Len(questions) : ~SelfAnswering(questions[i].element)
    /\ \A k \in 1..Len(returned) : \A i \in 1..Len(returned[k].questions) :
          /\ ~EqualsAnAnswer(returned[k].questions[i].questionText,
                             returned[k].questions[i].answers)
          /\ ~SelfAnswering(returned[k].questions[i].element)

\* a call has returned on a document with such a container
C7_Witness ==
    /\ Completed
    /\ \E e \in Nodes :
          /\ IsElement(e) /\ Len(extractAnswers(e)) >= 2
          /\ extractQuestionText(e) # ""
          /\ SelfAnswering(e)

\* the question-content element and the selectable inputs of the document
TheQuestionDiv == QuestionDivs(0)[1]

\* the platform-marked container: the element with the platform id around the
\* question-content element, else the parent of that element
MarkedContainer ==
    IF closest(TheQuestionDiv, HasDoceboId) # 0 THEN closest(TheQuestionDiv, HasDoceboId)
    ELSE parentElement(TheQuestionDiv)

\* the text Q of the question-content element, white space normalised
TheQuestion == cleanText(textContent(TheQuestionDiv))

\* the text of the label wrapped around an input
LabelText(input) == cleanText(textContent(closest(input, LAMBDA m : dom[m].tag = "label")))

\* the document is one platform-marked container with a question-content text
\* containing "?" and two selectable inputs, each inside a label
OneMarkedQuestion ==
    /\ Len(QuestionDivs(0)) = 1
    /\ Len(Inputs(0)) = 2
    /\ dom[MarkedContainer].parent = Body
    /\ \A n \in Nodes : n # Body => contains(MarkedContainer, n)
    /\ Includes(TheQuestion, "?")
    /\ \A i \in 1..2 :
          /\ closest(Inputs(0)[i], LAMBDA m : dom[m].tag = "label") # 0
          /\ dom[Inputs(0)[i]].id = ""

\* Q is longer than 10 characters and has no leading "Quiz N:" or "Question N
\* of M" label, the labels are valid answer texts, Q is none of them and does
\* not contain the first 10 characters of both
PlainQuestionAndAnswers ==
    /\ Len(TheQuestion) > 10
    /\ StripQuizPrefix(TheQuestion) = TheQuestion
    /\ StripQuestionPrefix(TheQuestion) = TheQuestion
    /\ \A i \in 1..2 :
          /\ ~IsInvalidAnswer(LabelText(Inputs(0)[i]))
          /\ Trim(ToLowerCase(LabelText(Inputs(0)[i]))) # Trim(ToLowerCase(TheQuestion))
    /\ \E i \in 1..2 :
          ~Includes(ToLowerCase(TheQuestion),
                    Substring(ToLowerCase(LabelText(Inputs(0)[i])), 10))

\* exactly one record, with text Q and the two answers in document order, each
\* selected as its input is checked
OneRecordForQ ==
    /\ Len(Last) = 1
    /\ Last[1].questionText = TheQuestion
    /\ Len(Last[1].answers) = 2
    /\ \A i \in 1..2 :
          /\ Last[1].answers[i].element = Inputs(0)[i]
          /\ Last[1].answers[i].text = LabelText(Inputs(0)[i])
          /\ Last[1].answers[i].isSelected = dom[Inputs(0)[i]].checked

\* C8 as stated: one platform-marked container with a question text Q
\* containing "?" and two labelled inputs gives exactly one record with text Q
\* and the answers in document order, selected as checked
C8_OneRecordForAnyQuestion == (Completed /\ OneMarkedQuestion) => OneRecordForQ

\* C8 amended: the same, for a Q longer than 10 characters without a leading
\* quiz or question-number label, and labels that are valid answer texts,
\* differ from Q and are not both contained in Q
C8_OneRecordForPlainQuestion ==
    (Completed /\ OneMarkedQuestion /\ PlainQuestionAndAnswers) => OneRecordForQ

\* such a document has been processed, and its first input is checked
C8_Witness ==
    /\ Completed /\ OneMarkedQuestion /\ PlainQuestionAndAnswers
    /\ dom[Inputs(0)[1]].checked /\ ~dom[Inputs(0)[2]].checked

\* C9 as stated: the returned records are ordered by strategy priority and,
\* within one strategy, by the document order of their containers
C9_PriorityThenDocumentOrder ==
    Completed =>
        \A i, j \in 1..Len(Last) : i < j =>
            \/ Last[i].strategy < Last[j].strategy
            \/ Last[i].strategy = Last[j].strategy /\ Last[i].element < Last[j].element

\* the position at which the strategies pushed the record of element e
PushedAt(e) == CHOOSE k \in 1..Len(questions) : questions[k].element = e

\* C9 amended: the returned records are ordered by strategy priority and,
\* within one strategy, in the order in which the strategy produced them; the
\* semantic strategy produces its fieldset containers before the others
C9_PriorityThenEmissionOrder ==
    Completed =>
        \A i, j \in 1..Len(Last) : i < j =>
            /\ Last[i].strategy <= Last[j].strategy
            /\ PushedAt(Last[i].element) < PushedAt(Last[j].element)
            /\ (Last[i].strategy = 5 /\ Last[j].strategy = 5
                    /\ dom[Last[j].element].tag = "fieldset")
                  => dom[Last[i].element].tag = "fieldset"

\* two records of one strategy returned against the document order of their
\* containers
C9_Witness ==
    /\ Completed
    /\ \E i, j \in 1..Len(Last) :
          i < j /\ Last[i].strategy = Last[j].strategy /\ Last[i].element > Last[j].element

\* the record at position i of the input is kept by deduplicateQuestions: no
\* rule but the key rule drops it, and every earlier record with its key is
\* dropped by such a rule
Survives(i) ==
    /\ ~DedupSkips(questions[i], questions)
    /\ \A j \in 1..(i - 1) :
          DedupKey(questions[j]) = DedupKey(questions[i]) => DedupSkips(questions[j], questions)

\* C10: deduplicateQuestions returns no two records with the same key, and the
\* records it returns are, in input order, the first record of each key among
\* those that no other rule drops
C10_FirstPerKey ==
    pc = "deduped" =>
        LET out == returned[1].questions
            kept == SelectSeq([i \in 1..Len(questions) |-> i], Survives)
        IN  /\ \A i, j \in 1..Len(out) : i # j => DedupKey(out[i]) # DedupKey(out[j])
            /\ out = [k \in 1..Len(kept) |-> questions[kept[k]]]

\* a record dropped by another rule, followed by a record with the same key
\* that is returned
C10_Witness ==
    /\ pc = "deduped"
    /\ \E i, j \in 1..Len(questions) :
          /\ i < j
          /\ questions[i].questionText # questions[j].questionText
          /\ DedupKey(questions[i]) = DedupKey(questions[j])
          /\ DedupSkips(questions[i], questions)
          /\ \E k \in 1..Len(returned[1].questions) : returned[1].questions[k] = questions[j]

\* text.toLowerCase().trim()
Normalized(text) == Trim(ToLowerCase(text))

\* C11: no record returned by deduplicateQuestions has a normalized question
\* text equal to the normalized text of an answer of any record passed in,
\* wherever in the input that record stands
C11_NoAnswerTextReturned ==
    pc = "deduped" =>
        \A k \in 1..Len(returned[1].questions) :
            \A i \in 1..Len(questions) : \A j \in 1..Len(questions[i].answers) :
                Normalized(returned[1].questions[k].questionText)
                    # Normalized(questions[i].answers[j].text)

\* a record whose text is an answer of a later record only, and which is the
\* first of its key, is not returned
C11_Witness ==
    /\ pc = "deduped"
    /\ \E i, j \in 1..Len(questions) :
          /\ i < j
          /\ \E a \in 1..Len(questions[j].answers) :
                Normalized(questions[j].answers[a].text) = Normalized(questions[i].questionText)
          /\ \A h \in 1..j - 1 : \A a \in 1..Len(questions[h].answers) :
                Normalized(questions[h].answers[a].text) # Normalized(questions[i].questionText)
          /\ \A h \in 1..i - 1 : DedupKey(questions[h]) # DedupKey(questions[i])
          /\ \A k \in 1..Len(returned[1].questions) :
                returned[1].questions[k] # questions[i]

\* C12: a returned record carries questionNumber and totalQuestions only when
\* the numbered-phrase strategy produced it; the records of every other
\* strategy have both null
C12_NumbersOnlyFromNumberPattern ==
    Completed =>
        \A k \in 1..Len(Last) :
            Last[k].strategy # 2 =>
                Last[k].questionNumber = 0 - 1 /\ Last[k].totalQuestions = 0 - 1

\* a returned record of another strategy whose container text holds a
\* "Question N of M" phrase
C12_Witness ==
    /\ Completed
    /\ \E k \in 1..Len(Last) :
          /\ Last[k].strategy # 2
          /\ questionNumberRegex(textContent(Last[k].element)) # <<>>
          /\ Last[k].questionNumber = 0 - 1

\* the elements whose selectable inputs each sit inside a label of their own
LabelledContainers ==
    {c \in Nodes :
        /\ IsElement(c) /\ Inputs(c) # <<>>
        /\ \A i \in 1..Len(Inputs(c)) : closest(Inputs(c)[i], IsLabel) # 0}

\* the label texts of the inputs of c that the filter of extractAnswers keeps
SurvivingTexts(c) ==
    SelectSeq([i \in 1..Len(Inputs(c)) |-> Trim(LabelText(Inputs(c)[i]))],
              LAMBDA text : ~IsInvalidAnswer(text))

\* c has a question text that is none of its surviving answers
HasOwnQuestion(c) ==
    /\ extractQuestionText(c) # ""
    /\ \A i \in 1..Len(SurvivingTexts(c)) :
          Normalized(SurvivingTexts(c)[i]) # Normalized(extractQuestionText(c))

\* C13: an input without a usable label text costs only its own answer.  Once
\* a call has ended, for every element with labelled inputs
\* extractQuestionData ends without an exception, gives null when fewer than
\* 2 answers survive, and for an element with a question text gives a record
\* with exactly the surviving answers when 2 or more survive
C13_OnlyTheAnswerDropped ==
    (pc = "idle" /\ returned # <<>>) =>
        \A c \in LabelledContainers :
            /\ ~extractQuestionDataThrows(c)
            /\ Len(SurvivingTexts(c)) < 2 => extractQuestionData(c) = Null
            /\ (Len(SurvivingTexts(c)) >= 2 /\ HasOwnQuestion(c)) =>
                  [i \in 1..Len(extractQuestionData(c).answers) |->
                        extractQuestionData(c).answers[i].text] = SurvivingTexts(c)

\* the junk tokens of extractAnswers, in lower case
JunkPhrases == {"terminate the subscription", "renew the subscription"}

IsJunk(text) ==
    \/ ToLowerCase(text) = "null"
    \/ \E phrase \in JunkPhrases : Includes(ToLowerCase(text), phrase)

\* C14: every answer of every returned record has a text that is trimmed, at
\* least 2 characters long and not a junk token
C14_AnswerTextsAreValid ==
    Completed =>
        \A k \in 1..Len(Last) : \A i \in 1..Len(Last[k].answers) :
            /\ Trim(Last[k].answers[i].text) = Last[k].answers[i].text
            /\ Len(Last[k].answers[i].text) >= 2
            /\ ~IsJunk(Last[k].answers[i].text)

\* a returned record whose container holds an input with a junk or one-letter
\* label, the record having its other answers
C14_Witness ==
    /\ Completed
    /\ \E k \in 1..Len(Last) : \E i \in 1..Len(Inputs(Last[k].element)) :
          /\ closest(Inputs(Last[k].element)[i], IsLabel) # 0
          /\ IsJunk(LabelText(Inputs(Last[k].element)[i]))
          /\ Len(Last[k].answers) = Len(Inputs(Last[k].element)) - 1

\* C15: while the extension is disabled no MutationObserver is active, the
\* page holds no button of the script and window.quizSolverQuestions is
\* empty, whatever timer was pending when it was disabled
C15_NothingWhileDisabled ==
    (pc = "content" /\ ~isExtensionEnabled) =>
        /\ mutationObserver = 0
        /\ ui = [revealAll |-> FALSE, reveal |-> {}]
        /\ quizSolverQuestions = 0

\* the questions run r has requested, in the order of the calls
RequestedBy(r) == [k \in 1..Len(requests[r]) |-> requests[r][k].question]

PendingCount(r) ==
    Cardinality({j \in 1..Len(requests[r]) : requests[r][j].state = "pending"})

\* C16: every run of handleRevealAllClick requests the questions in list
\* order, each once and one at a time, goes on to the next question after a
\* failed request, and ends with successCount + errorCount = questions.length
\* and every question requested
C16_OneAtATimeInOrder ==
    pc = "reveal" =>
        \A r \in 1..Len(runs) :
            /\ RequestedBy(r) = [k \in 1..Len(RequestedBy(r)) |-> k]
            /\ PendingCount(r) <= 1
            /\ \A j \in 1..Len(requests[r]) :
                  (requests[r][j].state = "rejected" /\ j < numQuestions)
                    => Len(requests[r]) > j
            /\ runs[r].phase = "finished" =>
                  /\ runs[r].successCount + runs[r].errorCount = numQuestions
                  /\ Len(requests[r]) = numQuestions

\* a finished run over two questions in which the request of the first
\* question failed and that of the second succeeded, while another run of
\* the handler has a request pending
C16_Witness ==
    /\ pc = "reveal"
    /\ numQuestions = 2
    /\ \E r, other \in 1..Len(runs) :
          /\ runs[r].phase = "finished"
          /\ runs[r].errorCount = 1 /\ runs[r].successCount = 1
          /\ requests[r][1].state = "rejected"
          /\ PendingCount(other) = 1

\* the number of parentElement steps from node n up to its ancestor a
RECURSIVE LevelsAbove(_, _)
LevelsAbove(n, a) == IF n = a THEN 0 ELSE 1 + LevelsAbove(dom[n].parent, a)

\* the records the grouped-input strategy found in the last call
GroupedRecords == IF Len(foundBy) >= 3 THEN foundBy[3] ELSE <<>>

\* C17: findQuestionContainer looks at no more than 5 levels above its seed:
\* the container of every record of the grouped-input strategy lies at most
\* 5 levels above each input that findQuestionContainer resolved to it
C17_AtMostFiveLevels ==
    \A k \in 1..Len(GroupedRecords) : \A i \in 1..Len(Inputs(0)) :
        findQuestionContainer(Inputs(0)[i]) = GroupedRecords[k].element
            => LevelsAbove(Inputs(0)[i], GroupedRecords[k].element) <= 5

\* C18: no record returned by detectQuestions has a container with more
\* than 10 selectable inputs below it
C18_AtMostTenInputs ==
    Completed => \A k \in 1..Len(Last) : Len(Inputs(Last[k].element)) <= 10

\* C19: findQuestionContainer never returns an element that holds more than
\* one question-content element
C19_OneQuestionContent ==
    \A i \in 1..Len(Inputs(0)) :
        \A k \in 1..Len(GroupedRecords) :
            findQuestionContainer(Inputs(0)[i]) = GroupedRecords[k].element
                => Len(QuestionDivs(GroupedRecords[k].element)) <= 1

\* C20: once the grouping strategy has run, no selectable input is its own
\* question container
C20_ProperAncestor ==
    Len(foundBy) >= 3
        => \A i \in 1..Len(Inputs(0)) :
                findQuestionContainer(Inputs(0)[i]) # Inputs(0)[i]

\* C21: once the grouping strategies have run, an input without a likely
\* ancestor in a document of two or more inputs still resolves to a container
C21_FallbackResolves ==
    Len(foundBy) >= 4
        => \A i \in 1..Len(Inputs(0)) :
              (FirstLikelyContainer(Inputs(0)[i]) = 0 /\ Len(Inputs(0)) >= 2)
                  => findQuestionContainer(Inputs(0)[i]) # 0

\* the cleaned texts of the container that stand before the element, joined
TextPreceding(container, element) ==
    JoinWithSpace(CleanedTexts(InDocumentOrder(
        {n \in Descendants(container) : ~IsElement(n) /\ n < element})))

\* the first of the four methods whose text is longer than 10 characters,
\* Method 2 being the text that precedes the first selectable input
FirstOfFourMethods(container, firstInput) ==
    OrElse(LongerThan10(DoceboQuestionText(container)),
    OrElse(FirstLongText(questionTextSelectors(container)),
    OrElse(IF firstInput = 0 THEN ""
           ELSE LongerThan10(TextPreceding(container, firstInput)),
           FirstQuestionLine(SplitLines(textContent(container))))))

\* C22: extractQuestionText returns the result of the first of its four
\* methods that is longer than 10 characters, and null when none is
C22_FirstOfFourMethods ==
    Len(foundBy) >= 1
        => \A c \in 1..Len(dom) :
              IsElement(c)
                  => /\ extractQuestionText(c)
                          = FirstOfFourMethods(c, FirstOrNull(Inputs(c)))
                     /\ extractQuestionText(c) # ""
                          => Len(extractQuestionText(c)) > 10

\* the texts of the four sources of getAnswerText for an input
AnswerSources(input, byId, around, parent) ==
    { IF byId # 0 THEN cleanText(textContent(byId)) ELSE "",
      IF around # 0 THEN cleanText(textContent(around)) ELSE "",
      NextSiblingText(input),
      IF parent # 0 THEN ParentText(input, parent) ELSE "" }

\* C23: getAnswerText returns non-empty text whenever one of its four sources
\* has non-empty text
C23_SomeSourceIsUsed ==
    Len(foundBy) >= 1
        => \A i \in 1..Len(Inputs(0)) :
              (/\ ~LabelSelectorThrows(Inputs(0)[i])
               /\ AnswerSources(Inputs(0)[i],
                                IF dom[Inputs(0)[i]].id # ""
                                THEN LabelFor(Inputs(0)[i]) ELSE 0,
                                closest(Inputs(0)[i], IsLabel),
                                parentElement(Inputs(0)[i])) # {""})
                  => getAnswerText(Inputs(0)[i]) # ""

\* C24: no record returned by detectQuestions has two or more answers whose
\* first 10 characters, lower-cased, occur in its lower-cased question text
C24_NoConcatenationReturned ==
    Completed
        => \A k \in 1..Len(Last) :
              ~matchesMultipleAnswers(ToLowerCase(Last[k].questionText),
                                      Last[k].answers)

\* the answer-fragment rule with the eleven interrogative keywords
FragmentRule(questionTextLower) ==
    /\ Len(questionTextLower) < 20
    /\ ~Includes(questionTextLower, "?")
    /\ ~MatchesWord(questionTextLower, InterrogativeWords)

\* C25: the answer-fragment rule of the validator rejects the text of an
\* extraction exactly when it is shorter than 20 characters, has no "?" and
\* none of the eleven interrogative keywords
C25_FragmentRuleKeywords ==
    Len(foundBy) >= 1
        => \A c \in 1..Len(dom) :
              (IsElement(c) /\ extractQuestionData(c) # Null)
                  => (isLikelyAnswer(ToLowerCase(extractQuestionData(c).questionText))
                        <=> FragmentRule(ToLowerCase(extractQuestionData(c).questionText)))

\* the shortness rule with the eleven interrogative keywords
ShortRule(questionTextLower) ==
    /\ Len(questionTextLower) < 15
    /\ ~Includes(questionTextLower, "?")
    /\ ~MatchesWord(questionTextLower, InterrogativeWords)

\* another rule of deduplicateQuestions may drop the i-th question of qs
OtherRuleDrops(qs, i) ==
    \/ \E j \in 1..Len(qs) : j # i /\ DedupKey(qs[j]) = DedupKey(qs[i])
    \/ Trim(ToLowerCase(qs[i].questionText)) \in answerTexts(qs)
    \/ isAnswerDuplicate(qs[i].questionText, qs[i].answers)

\* C26: a question that no other rule drops is dropped by deduplicateQuestions
\* exactly when its text is shorter than 15 characters, has no "?" and none
\* of the eleven interrogative keywords
C26_ShortRuleKeywords ==
    Completed
        => \A i \in 1..Len(questions) :
              ~OtherRuleDrops(questions, i)
                  => ((\A k \in 1..Len(Last) : Last[k] # questions[i])
                        <=> ShortRule(Trim(ToLowerCase(questions[i].questionText))))

\* the inputs the answers stand for
KeptInputs(answers) == {answers[j].element : j \in 1..Len(answers)}

\* the inputs whose trimmed answer text is empty, shorter than 2 characters or
\* among the junk texts
DroppedInputs(inputs, JunkTexts(_)) ==
    {inputs[i] : i \in
        {i \in 1..Len(inputs) :
            \/ Trim(getAnswerText(inputs[i])) = ""
            \/ Len(Trim(getAnswerText(inputs[i]))) < 2
            \/ JunkTexts(Trim(getAnswerText(inputs[i])))}}

AllInputs(inputs) == {inputs[i] : i \in 1..Len(inputs)}

\* the text is one of the junk tokens, whatever its case
EqualsJunkToken(text) == ToLowerCase(text) \in ({"null"} \cup JunkPhrases)

\* the elements extractAnswers is applied to without an exception
AnswerContainers ==
    {c \in Nodes : IsElement(c) /\ Inputs(c) # <<>> /\ ~extractAnswersThrows(c)}

\* C27 as claimed: extractAnswers drops an answer only if its trimmed text is
\* empty, shorter than 2 characters or equal to a junk token
C27_OnlyExactJunkDropped ==
    (pc = "idle" /\ returned # <<>>)
        => \A c \in AnswerContainers :
              AllInputs(Inputs(c)) \ KeptInputs(extractAnswers(c))
                  \subseteq DroppedInputs(Inputs(c), EqualsJunkToken)

\* C27 as amended: extractAnswers drops an answer exactly when its trimmed
\* text is empty, shorter than 2 characters, equal to "null" or contains one
\* of the junk phrases, whatever its case
C27_JunkPhraseDropped ==
    (pc = "idle" /\ returned # <<>>)
        => \A c \in AnswerContainers :
              AllInputs(Inputs(c)) \ KeptInputs(extractAnswers(c))
                  = DroppedInputs(Inputs(c), IsJunk)

\* a returned record whose container holds an input with a longer text around
\* a junk phrase, the record having no answer for that input and two answers
\* for its other inputs
C27_Witness ==
    /\ Completed
    /\ \E k \in 1..Len(Last) : \E i \in 1..Len(Inputs(Last[k].element)) :
          /\ IsJunk(getAnswerText(Inputs(Last[k].element)[i]))
          /\ ~EqualsJunkToken(getAnswerText(Inputs(Last[k].element)[i]))
          /\ \A j \in 1..Len(Last[k].answers) :
                Last[k].answers[j].element # Inputs(Last[k].element)[i]
          /\ Len(Last[k].answers) = 2

\* C28: at most one getAnswer request of the Reveal button of a question is
\* in flight at any time
C28_OneRequestInFlight ==
    pc = "button" => Cardinality({h \in 1..Len(clicks) : clicks[h] = "answer"}) <= 1

\* C29: when the 500 ms timer of the connected observer fires while the
\* extension is enabled, window.quizSolverQuestions becomes the result of the
\* detection on the page as it is, and every question of it has its button
C29_FreshAfterMutation ==
    [][(/\ pc = "content" /\ isExtensionEnabled /\ mutationObserver # 0
        /\ \A k \in 1..Len(timers) : timers[k] = mutationObserver
        /\ Len(timers') < Len(timers))
          => (quizSolverQuestions' = page' /\ (1..page') \subseteq ui'.reveal)]_vars

\* C30: a check of waitForContent that ends the polling invokes the callback
\* once, the callback is invoked by no other step, and no timer is left
\* pending after maxAttempts checks
C30_CallbackOnceWithinMaxAttempts ==
    [][pc = "content"
        => /\ Len(polls') < Len(polls)
                => /\ Len(polls') = Len(polls) - 1
                   /\ Len(observers') = Len(observers) + 1
           /\ Len(observers') # Len(observers)
                => /\ Len(observers') = Len(observers) + 1
                   /\ Len(polls') = Len(polls) - 1
           /\ \A i \in 1..Len(polls') : polls'[i] < maxAttempts]_vars

\* the callback was invoked by the 50th check on a page without quiz content,
\* and no timer of waitForContent is pending
C30_Witness ==
    /\ pc = "content"
    /\ page = 0
    /\ Len(observers) = 1
    /\ polls = <<>>

====
